---------------------------- MODULE Spec2Model ----------------------------
(***************************************************************************)
(* Model of the request-shaping core of warhack811/ai:                     *)
(*   - build_smart_context  (backups/context_builder.py)                   *)
(*   - SemanticIntentDetector.detect_intent                                *)
(*                          (backups/semantic_intent_detector.py)          *)
(* and of its frontend state: the useChat hook with persisted sessions,    *)
(* DocumentUpload's upload handler and the settings of App and             *)
(* SettingsPanel.                                                          *)
(*                                                                         *)
(* Python strings of build_smart_context are up to several thousand        *)
(* characters long, so a string is held run-length encoded: a sequence of  *)
(* runs <<c, n>> (character c repeated n > 0 times) in which neighbouring  *)
(* runs have different characters.  Every string has exactly one such      *)
(* encoding, so equality of encodings is equality of strings, and the      *)
(* operators below (len, strip, slicing, in, replace, join) compute on     *)
(* the encoding what Python computes on the string.                        *)
(* A character is a TLA+ string naming it; the non-ASCII letters of the    *)
(* source are named in ASCII ("O:" is O with diaeresis, "s," is s with     *)
(* cedilla, "I." is dotted capital I, "i-" is dotless i, ...).             *)
(***************************************************************************)
EXTENDS Integers, Sequences, FiniteSets, TLC

VARIABLES
    ctx_pc,          \* the build_smart_context call: "idle" | "call" | "done"
    ctx_args,        \* the arguments of the call
    ctx_ret,         \* what the call returned (or the exception it ended in)
    intent_patterns, \* SemanticIntentDetector.intent_patterns of the global instance
    det_pc,          \* the detect_intent call: "idle" | "call" | "done"
    det_args,        \* the arguments of the call
    det_ret,         \* the IntentResult the call returned
    conc_calls,      \* concurrent detect_intent calls: each call's arguments, locals and result
    conc_scores,     \* the scores dict of each call frame, in insertion order
    chat_messages,   \* useChat: the messages state
    chat_isLoading,  \* useChat: the isLoading state
    chat_error,      \* useChat: the error state ("null" or the error text)
    chat_sessionId,  \* useChat: the sessionId state
    chat_lastSources,\* useChat: the lastSources state
    chat_storage,    \* localStorage: the item chat_messages_<sid> of every sid
    chat_pending,    \* the sendMessage calls awaiting axios.post, with what each closed over
    chat_calls,      \* the text of every sendMessage call so far
    chat_done,       \* how the request of each finished call ended
    upl_file,        \* DocumentUpload: the file state
    upl_uploading,   \* DocumentUpload: the uploading state
    upl_error,       \* DocumentUpload: the error state
    upl_documents,   \* DocumentUpload: the documents state
    upl_loadingDocs, \* DocumentUpload: the loadingDocs state
    upl_server,      \* the documents the backend holds
    upl_reading,     \* the FileReader reads going on, with the file each handler closed over
    upl_requests,    \* the upload requests in flight
    upl_started,     \* the number of uploads handleUpload has started
    app_mounted,     \* App: whether the effects of the first render have run
    app_settings,    \* App: the settings state
    app_showSettings, \* App: the showSettings state
    app_stored,      \* localStorage: the item chat_settings
    panel_localSettings, \* SettingsPanel: the localSettings state
    panel_edited,    \* whether a control of the panel was used since it was opened
    panel_saves      \* the number of times Save was pressed

ctx_vars == <<ctx_pc, ctx_args, ctx_ret>>
det_vars == <<det_pc, det_args, det_ret>>
conc_vars == <<conc_calls, conc_scores>>
chat_state == <<chat_messages, chat_isLoading, chat_error, chat_sessionId,
                chat_lastSources, chat_storage>>
chat_vars == <<chat_state, chat_pending, chat_calls, chat_done>>

upl_vars == <<upl_file, upl_uploading, upl_error, upl_documents, upl_loadingDocs,
              upl_server, upl_reading, upl_requests, upl_started>>
app_vars == <<app_mounted, app_settings, app_showSettings, app_stored,
              panel_localSettings, panel_edited, panel_saves>>
back_vars == <<ctx_vars, intent_patterns, det_vars, conc_vars>>
vars == <<ctx_vars, intent_patterns, det_vars, conc_vars, chat_vars, upl_vars, app_vars>>

----------------------------------------------------------------------------
(* Python str operations on run-length encoded strings                     *)

EmptyStr == << >>

\* c * n
Rep(c, n) == IF n > 0 THEN << <<c, n>> >> ELSE << >>

\* s + t
Cat(s, t) ==
    IF s = << >> THEN t
    ELSE IF t = << >> THEN s
    ELSE IF s[Len(s)][1] = t[1][1]
         THEN SubSeq(s, 1, Len(s) - 1)
              \o << <<t[1][1], s[Len(s)][2] + t[1][2]>> >>
              \o Tail(t)
         ELSE s \o t

\* a string literal, given character by character
RECURSIVE Lit(_)
Lit(cs) == IF cs = << >> THEN << >> ELSE Cat(Rep(cs[1], 1), Lit(Tail(cs)))

\* len(s)
RECURSIVE PyLen(_)
PyLen(s) == IF s = << >> THEN 0 ELSE s[1][2] + PyLen(Tail(s))

\* the characters str.strip() removes
Whitespace == {" ", "\n", "\t"}

\* s.strip()
RECURSIVE LStrip(_)
LStrip(s) ==
    IF s # << >> /\ s[1][1] \in Whitespace THEN LStrip(Tail(s)) ELSE s

RECURSIVE RStrip(_)
RStrip(s) ==
    IF s # << >> /\ s[Len(s)][1] \in Whitespace
    THEN RStrip(SubSeq(s, 1, Len(s) - 1))
    ELSE s

PyStrip(s) == RStrip(LStrip(s))

\* s[:n], for n >= 0
RECURSIVE Take(_, _)
Take(s, n) ==
    IF n <= 0 \/ s = << >> THEN << >>
    ELSE IF s[1][2] >= n THEN << <<s[1][1], n>> >>
    ELSE <<s[1]>> \o Take(Tail(s), n - s[1][2])

\* s[n:], for n >= 0
RECURSIVE Drop(_, _)
Drop(s, n) ==
    IF n <= 0 \/ s = << >> THEN s
    ELSE IF s[1][2] > n THEN << <<s[1][1], s[1][2] - n>> >> \o Tail(s)
    ELSE Drop(Tail(s), n - s[1][2])

\* s[-n:], for n > 0
LastChars(s, n) == IF PyLen(s) <= n THEN s ELSE Drop(s, PyLen(s) - n)

\* The run indexes i of s at which an occurrence of the non-empty string t
\* starts: t's first run is the end of run i (all of run i when t is one
\* run: the leftmost occurrence inside the run), its middle runs are the
\* next runs of s, and its last run is the beginning of the run after.
OccursAt(t, s) ==
    { i \in 1..(Len(s) - Len(t) + 1) :
        /\ s[i][1] = t[1][1]
        /\ s[i][2] >= t[1][2]
        /\ \A j \in 2..(Len(t) - 1) : s[i + j - 1] = t[j]
        /\ Len(t) > 1 =>
              /\ s[i + Len(t) - 1][1] = t[Len(t)][1]
              /\ s[i + Len(t) - 1][2] >= t[Len(t)][2] }

\* t in s
PyIn(t, s) == t = << >> \/ OccursAt(t, s) # {}

\* s.find(t) for a non-empty t: the offset of the leftmost occurrence, -1 if none
PyFind(t, s) ==
    IF OccursAt(t, s) = {} THEN -1
    ELSE LET i == CHOOSE k \in OccursAt(t, s) : \A m \in OccursAt(t, s) : k <= m
             before == PyLen(SubSeq(s, 1, i - 1))
         IN  IF Len(t) = 1 THEN before ELSE before + s[i][2] - t[1][2]

\* s.replace(old, new) for a non-empty old: every occurrence, left to right,
\* the search resuming after each replaced occurrence
RECURSIVE PyReplace(_, _, _)
PyReplace(s, old, new) ==
    LET at == PyFind(old, s) IN
    IF at < 0 THEN s
    ELSE Cat(Cat(Take(s, at), new),
             PyReplace(Drop(s, at + PyLen(old)), old, new))

\* '\n'.join(parts)
RECURSIVE PyJoin(_)
PyJoin(parts) ==
    IF parts = << >> THEN << >>
    ELSE IF Len(parts) = 1 THEN parts[1]
    ELSE Cat(Cat(parts[1], Rep("\n", 1)), PyJoin(Tail(parts)))

----------------------------------------------------------------------------
(* build_smart_context                                                     *)

\* "..." and the string literals of the source
Dots == Rep(".", 3)
RagHeading == Lit(<<"I.", "l", "g", "i", "l", "i", " ",
                    "B", "i", "l", "g", "i", "l", "e", "r", ":">>)
HistoryHeading == Lit(<<"O:", "n", "c", "e", "k", "i", " ",
                        "K", "o", "n", "u", "s,", "m", "a", ":">>)
QueryHeading == Lit(<<"S", "o", "r", "u", ":">>)
HistoryEllipsis == Cat(Dots, Rep("\n", 2))

ProfileMaxChars == 300
ProfileKeepChars == 297
max_history_chars == 4000

\* Python truthiness of "x and x.strip()"
Present(s) == s # EmptyStr /\ PyStrip(s) # EmptyStr

max_rag_chars(complexity) ==
    IF complexity <= 3 THEN 800
    ELSE IF complexity <= 6 THEN 1500
    ELSE IF complexity <= 8 THEN 2500
    ELSE 3500

\* max_total with every tier ending one complexity score earlier
max_total_tiers_shifted(complexity) ==
    IF complexity < 3 THEN 3000
    ELSE IF complexity < 6 THEN 5000
    ELSE IF complexity < 8 THEN 8000
    ELSE 12000

max_total(complexity) ==
    IF complexity <= 3 THEN 3000
    ELSE IF complexity <= 6 THEN 5000
    ELSE IF complexity <= 8 THEN 8000
    ELSE 12000

\* profile_text with the cut taken at the cap instead of three characters before it
profile_text_cut_at_cap(profile_context) ==
    LET t == PyStrip(profile_context) IN
    IF PyLen(t) > ProfileMaxChars THEN Cat(Take(t, ProfileMaxChars), Dots) ELSE t

profile_text(profile_context) ==
    LET t == PyStrip(profile_context) IN
    IF PyLen(t) > ProfileMaxChars THEN Cat(Take(t, ProfileKeepChars), Dots) ELSE t

\* rag_text keeping the end of the knowledge instead of its beginning
rag_text_keeps_suffix(rag_context, complexity) ==
    LET t == PyStrip(rag_context) IN
    IF PyLen(t) > max_rag_chars(complexity)
    THEN Cat(LastChars(t, max_rag_chars(complexity) - 3), Dots)
    ELSE t

rag_text(rag_context, complexity) ==
    LET t == PyStrip(rag_context) IN
    IF PyLen(t) > max_rag_chars(complexity)
    THEN Cat(Take(t, max_rag_chars(complexity) - 3), Dots)
    ELSE t

\* history_text keeping the oldest characters instead of the newest
history_text_keeps_prefix(chat_history) ==
    LET t == PyStrip(chat_history) IN
    IF PyLen(t) > max_history_chars
    THEN Cat(HistoryEllipsis, Take(t, max_history_chars))
    ELSE t

history_text(chat_history) ==
    LET t == PyStrip(chat_history) IN
    IF PyLen(t) > max_history_chars
    THEN Cat(HistoryEllipsis, LastChars(t, max_history_chars))
    ELSE t

\* context_parts with the history section put before the knowledge section
context_parts_history_first(a) ==
    (IF Present(a.profile_context)
     THEN <<profile_text(a.profile_context), EmptyStr>> ELSE << >>)
    \o (IF Present(a.chat_history)
        THEN <<HistoryHeading, history_text(a.chat_history), EmptyStr>>
        ELSE << >>)
    \o (IF Present(a.rag_context)
        THEN <<RagHeading, rag_text(a.rag_context, a.complexity), EmptyStr>>
        ELSE << >>)
    \o <<QueryHeading, PyStrip(a.user_message)>>

\* context_parts with the user message appended as given, not stripped
context_parts_raw_message(a) ==
    (IF Present(a.profile_context)
     THEN <<profile_text(a.profile_context), EmptyStr>> ELSE << >>)
    \o (IF Present(a.rag_context)
        THEN <<RagHeading, rag_text(a.rag_context, a.complexity), EmptyStr>>
        ELSE << >>)
    \o (IF Present(a.chat_history)
        THEN <<HistoryHeading, history_text(a.chat_history), EmptyStr>>
        ELSE << >>)
    \o <<QueryHeading, a.user_message>>

\* context_parts as it stands at the join
context_parts(a) ==
    (IF Present(a.profile_context)
     THEN <<profile_text(a.profile_context), EmptyStr>> ELSE << >>)
    \o (IF Present(a.rag_context)
        THEN <<RagHeading, rag_text(a.rag_context, a.complexity), EmptyStr>>
        ELSE << >>)
    \o (IF Present(a.chat_history)
        THEN <<HistoryHeading, history_text(a.chat_history), EmptyStr>>
        ELSE << >>)
    \o <<QueryHeading, PyStrip(a.user_message)>>

\* full_context before the size check
naive_context(a) == PyJoin(context_parts(a))

\* full_context after "if chat_history:" of the size check: the parts that
\* neither contain the history heading nor equal the history text, joined
full_context_no_history(a) ==
    LET ht == history_text(a.chat_history)
        Keep(p) == ~ PyIn(HistoryHeading, p) /\ p # ht
    IN  IF a.chat_history # EmptyStr
        THEN PyJoin(SelectSeq(context_parts(a), Keep))
        ELSE naive_context(a)

\* The size check.  The local history_text is assigned only inside
\* "if chat_history and chat_history.strip()"; the comprehension reads it for
\* every part that does not contain the history heading, and the read of the
\* unassigned name is a NameError.
cascade(a) ==
    LET parts == context_parts(a)
        bound == Present(a.chat_history)
        NoHeading(p) == ~ PyIn(HistoryHeading, p)
        raises == a.chat_history # EmptyStr /\ ~ bound
                  /\ \E k \in 1..Len(parts) : NoHeading(parts[k])
        no_history == full_context_no_history(a)
        shortened_rag == Cat(Take(a.rag_context, PyLen(a.rag_context) \div 2), Dots)
    IN  IF raises
        THEN [status |-> "NameError", system_prompt |-> EmptyStr,
              full_context |-> EmptyStr]
        ELSE [status |-> "ok", system_prompt |-> EmptyStr,
              full_context |->
                 IF PyLen(no_history) > max_total(a.complexity)
                    /\ a.rag_context # EmptyStr
                 THEN PyReplace(no_history, a.rag_context, shortened_rag)
                 ELSE no_history]

\* build_smart_context with the size check taken at the cap itself
\* (len(full_context) >= max_total)
build_smart_context_checked_at_cap(a) ==
    IF PyLen(naive_context(a)) >= max_total(a.complexity)
    THEN cascade(a)
    ELSE [status |-> "ok", system_prompt |-> EmptyStr,
          full_context |-> naive_context(a)]

\* build_smart_context returning the query heading as system_prompt
build_smart_context_with_prompt(a) ==
    [(IF PyLen(naive_context(a)) > max_total(a.complexity)
      THEN cascade(a)
      ELSE [status |-> "ok", system_prompt |-> EmptyStr,
            full_context |-> naive_context(a)])
     EXCEPT !.system_prompt = QueryHeading]

build_smart_context(a) ==
    IF PyLen(naive_context(a)) > max_total(a.complexity)
    THEN cascade(a)
    ELSE [status |-> "ok", system_prompt |-> EmptyStr,
          full_context |-> naive_context(a)]

----------------------------------------------------------------------------
(* SemanticIntentDetector                                                  *)
(*                                                                         *)
(* The messages and history turns of detect_intent are short; such a text  *)
(* is the sequence of its characters.                                      *)

\* str.lower() of the letters that occur: "I." (dotted capital I) lowers to
\* "i" followed by a combining dot above, which is not a word character
UpperLetters == <<"A", "B", "C", "D", "E", "F", "G", "H", "I", "J", "K", "L", "M",
                  "N", "O", "P", "Q", "R", "S", "T", "U", "V", "W", "X", "Y", "Z",
                  "C,", "G-", "O:", "S,", "U:">>
LowerLetters == <<"a", "b", "c", "d", "e", "f", "g", "h", "i", "j", "k", "l", "m",
                  "n", "o", "p", "q", "r", "s", "t", "u", "v", "w", "x", "y", "z",
                  "c,", "g-", "o:", "s,", "u:">>

LowerOf ==
    [c \in {UpperLetters[i] : i \in DOMAIN UpperLetters} |->
        LowerLetters[CHOOSE i \in DOMAIN UpperLetters : UpperLetters[i] = c]]

LowerChar(c) ==
    IF c = "I." THEN <<"i", "^.">>
    ELSE IF c \in DOMAIN LowerOf THEN <<LowerOf[c]>>
    ELSE <<c>>

\* text.lower()
RECURSIVE lower(_)
lower(text) ==
    IF text = << >> THEN << >> ELSE LowerChar(text[1]) \o lower(Tail(text))

\* text.strip()
RECURSIVE strip(_)
strip(text) ==
    IF text = << >> THEN text
    ELSE IF text[1] \in Whitespace THEN strip(Tail(text))
    ELSE IF text[Len(text)] \in Whitespace THEN strip(SubSeq(text, 1, Len(text) - 1))
    ELSE text

\* keyword in text
IsIn(keyword, text) ==
    \E i \in 0..(Len(text) - Len(keyword)) :
        /\ text[i + 1] = keyword[1]
        /\ SubSeq(text, i + 1, i + Len(keyword)) = keyword

\* \w and \s of the re module on str
WordChars ==
    {LowerLetters[i] : i \in DOMAIN LowerLetters}
    \union {UpperLetters[i] : i \in DOMAIN UpperLetters}
    \union {"i-", "I.", "_", "0", "1", "2", "3", "4", "5", "6", "7", "8", "9"}
IsWordChar(c) == c \in WordChars
IsSpaceChar(c) == c \in Whitespace

\* The regular expressions of the pattern table are sequences of these
\* elements; p is a position between characters, 0..Len(text).
WordBoundary == [kind |-> "\\b"]
LineStart == [kind |-> "^"]
LineEnd == [kind |-> "$"]
WordChars1 == [kind |-> "\\w+"]
WordChars0 == [kind |-> "\\w*"]
Spaces1 == [kind |-> "\\s+"]
OneOf(alternatives) == [kind |-> "(|)", alternatives |-> alternatives]

AtWordBoundary(text, p) ==
    (p > 0 /\ IsWordChar(text[p])) # (p < Len(text) /\ IsWordChar(text[p + 1]))

\* the end of the longest run of word (space) characters that starts at p
RECURSIVE WordRunEnd(_, _)
WordRunEnd(text, p) ==
    IF p < Len(text) /\ IsWordChar(text[p + 1]) THEN WordRunEnd(text, p + 1) ELSE p

RECURSIVE SpaceRunEnd(_, _)
SpaceRunEnd(text, p) ==
    IF p < Len(text) /\ IsSpaceChar(text[p + 1]) THEN SpaceRunEnd(text, p + 1) ELSE p

\* the positions at which element e can end when it starts at position p
EndsOf(e, text, p) ==
    CASE e.kind = "\\b" -> IF AtWordBoundary(text, p) THEN {p} ELSE {}
      [] e.kind = "^" -> IF p = 0 THEN {p} ELSE {}
      [] e.kind = "$" ->
            IF p = Len(text) \/ (p = Len(text) - 1 /\ text[Len(text)] = "\n")
            THEN {p} ELSE {}
      [] e.kind = "\\w+" -> (p + 1)..WordRunEnd(text, p)
      [] e.kind = "\\w*" -> p..WordRunEnd(text, p)
      [] e.kind = "\\s+" -> (p + 1)..SpaceRunEnd(text, p)
      [] e.kind = "(|)" ->
            {p + Len(e.alternatives[k]) : k \in
                {k \in DOMAIN e.alternatives :
                    /\ p + Len(e.alternatives[k]) <= Len(text)
                    /\ text[p + 1] = e.alternatives[k][1]
                    /\ SubSeq(text, p + 1, p + Len(e.alternatives[k]))
                          = e.alternatives[k]}}

\* the positions at which a match of pattern can end when it starts in P
RECURSIVE MatchEnds(_, _, _)
MatchEnds(pattern, text, P) ==
    IF pattern = << >> THEN P
    ELSE MatchEnds(Tail(pattern), text,
                   UNION {EndsOf(pattern[1], text, p) : p \in P})

\* re.search(pattern, text) is not None
re_search(pattern, text) == MatchEnds(pattern, text, 0..Len(text)) # {}

\* keyword_score * 0.1 in the place of keyword_score * 0.15
KeywordProductOfTenths(keyword_score) == 100 * keyword_score

\* The scores are Python floats.  A float is held as an integer: ten times
\* its value in hundredths, plus its distance in units in the last place
\* from the float nearest to that number of hundredths (0.3 is 300,
\* 0.30000000000000004 is 301, 0.44999999999999996 is 449), so that the
\* order of the integers is the order of the floats.
\* keyword_score * 0.15 and pattern_score * 0.2, rounded as binary64 rounds
KeywordProduct(keyword_score) ==
    IF keyword_score \in {3, 6, 9, 12}
    THEN 150 * keyword_score - 1 ELSE 150 * keyword_score
PatternProduct(pattern_score) ==
    IF pattern_score = 3 THEN 601 ELSE 200 * pattern_score

\* x + y: the sums _score_intent can form that binary64 does not round to
\* the float nearest to the decimal sum
RoundedSums ==
    {<<200, 100, 301>>, <<301, 100, 400>>, <<350, 100, 449>>, <<449, 400, 850>>,
     <<700, 100, 799>>, <<1049, 100, 1150>>, <<1050, 100, 1151>>,
     <<1099, 100, 1200>>, <<1100, 100, 1201>>, <<1301, 100, 1402>>,
     <<1351, 100, 1452>>}
FloatAdd(x, y) ==
    IF \E r \in RoundedSums : r[1] = x /\ r[2] = y
    THEN (CHOOSE r \in RoundedSums : r[1] = x /\ r[2] = y)[3]
    ELSE x + y

Min(x, y) == IF x <= y THEN x ELSE y

_build_intent_patterns ==
    <<
      [intent |-> "QUESTION",
       keywords |-> <<
            <<"n", "e">>, <<"n", "a", "s", "i-", "l">>,
            <<"n", "e", "d", "e", "n">>, <<"k", "i", "m">>,
            <<"n", "e", "r", "e", "d", "e">>,
            <<"n", "e", " ", "z", "a", "m", "a", "n">>,
            <<"h", "a", "n", "g", "i">>, <<"k", "a", "c,">>, <<"m", "i">>,
            <<"m", "u">>, <<"m", "u:">>, <<"m", "i-">> >>,
       patterns |-> <<
            \* \?$
            <<OneOf(<<<<"?">>>>),
              LineEnd>>,
            \* \b(ne|nas{i-}l|neden|kim|nerede)\b
            <<WordBoundary,
              OneOf(<<<<"n", "e">>, <<"n", "a", "s", "i-", "l">>,
                      <<"n", "e", "d", "e", "n">>, <<"k", "i", "m">>,
                      <<"n", "e", "r", "e", "d", "e">>>>),
              WordBoundary>>
         >>,
       context |-> <<<<"a", "s", "k", "i", "n", "g">>, <<"i", "n", "q", "u", "i", "r", "y">>>>],
      [intent |-> "CLARIFICATION_REQUEST",
       keywords |-> <<
            <<"n", "e", " ", "d", "e", "m", "e", "k">>,
            <<"a", "n", "l", "a", "m", "a", "d", "i-", "m">>,
            <<"a", "c,", "i-", "k", "l", "a", "r", " ", "m", "i-", "s", "i-", "n">>,
            <<"d", "e", "t", "a", "y", "l", "i-">>,
            <<"d", "a", "h", "a", " ", "b", "a", "s", "i", "t">>,
            <<"y", "e", "n", "i", "d", "e", "n", " ", "a", "n", "l", "a", "t", "i-", "r", " ", "m", "i-", "s", "i-", "n">>,
            <<"t", "e", "k", "r", "a", "r", " ", "e", "d", "e", "r", " ", "m", "i", "s", "i", "n">> >>,
       patterns |-> <<
            \* \b(ne demek|anlamad{i-}m|a{c,}{i-}kla)\b
            <<WordBoundary,
              OneOf(<<<<"n", "e", " ", "d", "e", "m", "e", "k">>,
                      <<"a", "n", "l", "a", "m", "a", "d", "i-", "m">>,
                      <<"a", "c,", "i-", "k", "l", "a">>>>),
              WordBoundary>>
         >>,
       context |-> <<<<"c", "o", "n", "f", "u", "s", "e", "d">>, <<"u", "n", "c", "l", "e", "a", "r">>>>],
      [intent |-> "FOLLOW_UP",
       keywords |-> <<
            <<"p", "e", "k", "i">>, <<"e", "e">>,
            <<"o", " ", "z", "a", "m", "a", "n">>,
            <<"b", "u", "n", "u", "n", " ", "u:", "z", "e", "r", "i", "n", "e">>,
            <<"a", "y", "r", "i-", "c", "a">>, <<"v", "e">>,
            <<"b", "i", "r", " ", "d", "e">>, <<"b", "a", "s,", "k", "a">>,
            <<"d", "a", "h", "a">> >>,
       patterns |-> <<
            \* ^(peki|ee|o zaman)\b
            <<LineStart,
              OneOf(<<<<"p", "e", "k", "i">>, <<"e", "e">>,
                      <<"o", " ", "z", "a", "m", "a", "n">>>>),
              WordBoundary>>
         >>,
       context |-> <<<<"c", "o", "n", "t", "i", "n", "u", "a", "t", "i", "o", "n">>>>],
      [intent |-> "EXPLAIN",
       keywords |-> <<
            <<"a", "c,", "i-", "k", "l", "a">>,
            <<"a", "n", "l", "a", "t", "i-", "r", " ", "m", "i-", "s", "i-", "n">>,
            <<"n", "e", "d", "i", "r">>,
            <<"n", "e", " ", "d", "e", "m", "e", "k">>,
            <<"d", "e", "t", "a", "y", "l", "i-", " ", "a", "n", "l", "a", "t">>,
            <<"o:", "r", "n", "e", "k", "l", "e">>,
            <<"g", "o:", "s", "t", "e", "r">> >>,
       patterns |-> <<
            \* \b(a{c,}{i-}kla|anlat|g{o:}ster)\b
            <<WordBoundary,
              OneOf(<<<<"a", "c,", "i-", "k", "l", "a">>,
                      <<"a", "n", "l", "a", "t">>,
                      <<"g", "o:", "s", "t", "e", "r">>>>),
              WordBoundary>>
         >>,
       context |-> <<<<"e", "x", "p", "l", "a", "i", "n">>>>],
      [intent |-> "SUMMARIZE",
       keywords |-> <<
            <<"o:", "z", "e", "t">>, <<"k", "i-", "s", "a", "c", "a">>,
            <<"o:", "z", "e", "t", "l", "e">>, <<"k", "i-", "s", "a">>,
            <<"h", "i-", "z", "l", "i-", "c", "a">>,
            <<"a", "n", "a", " ", "f", "i", "k", "i", "r">>,
            <<"t", "e", "m", "e", "l", " ", "n", "o", "k", "t", "a">> >>,
       patterns |-> <<
            \* \b({o:}zet|k{i-}saca|{o:}zetle)\b
            <<WordBoundary,
              OneOf(<<<<"o:", "z", "e", "t">>,
                      <<"k", "i-", "s", "a", "c", "a">>,
                      <<"o:", "z", "e", "t", "l", "e">>>>),
              WordBoundary>>
         >>,
       context |-> <<<<"s", "u", "m", "m", "a", "r", "i", "z", "e">>>>],
      [intent |-> "CODE_HELP",
       keywords |-> <<
            <<"k", "o", "d">>, <<"p", "y", "t", "h", "o", "n">>,
            <<"j", "a", "v", "a", "s", "c", "r", "i", "p", "t">>,
            <<"p", "r", "o", "g", "r", "a", "m">>,
            <<"f", "o", "n", "k", "s", "i", "y", "o", "n">>,
            <<"e", "r", "r", "o", "r">>, <<"h", "a", "t", "a">>,
            <<"d", "e", "b", "u", "g">>,
            <<"c,", "a", "l", "i-", "s,", "m", "i-", "y", "o", "r">>,
            <<"a", "l", "g", "o", "r", "i", "t", "m", "a">> >>,
       patterns |-> <<
            \* \b(python|javascript|kod|program)\b
            <<WordBoundary,
              OneOf(<<<<"p", "y", "t", "h", "o", "n">>,
                      <<"j", "a", "v", "a", "s", "c", "r", "i", "p", "t">>,
                      <<"k", "o", "d">>,
                      <<"p", "r", "o", "g", "r", "a", "m">>>>),
              WordBoundary>>
         >>,
       context |-> <<<<"c", "o", "d", "i", "n", "g">>, <<"p", "r", "o", "g", "r", "a", "m", "m", "i", "n", "g">>>>],
      [intent |-> "EMOTIONAL_SUPPORT",
       keywords |-> <<
            <<"u:", "z", "g", "u:", "n", "u:", "m">>,
            <<"m", "o", "r", "a", "l", "i", "m", " ", "b", "o", "z", "u", "k">>,
            <<"m", "u", "t", "s", "u", "z", "u", "m">>,
            <<"y", "a", "l", "n", "i-", "z", "i-", "m">>,
            <<"s", "i", "n", "i", "r", "l", "i", "y", "i", "m">>,
            <<"k", "a", "y", "g", "i-", "l", "i-", "y", "i-", "m">>,
            <<"k", "o", "r", "k", "u", "y", "o", "r", "u", "m">>,
            <<"s", "t", "r", "e", "s">> >>,
       patterns |-> <<
            \* \b({u:}zg{u:}n|mutsuz|sinirli|kayg{i-}l{i-}|korku)\w*\b
            <<WordBoundary,
              OneOf(<<<<"u:", "z", "g", "u:", "n">>,
                      <<"m", "u", "t", "s", "u", "z">>,
                      <<"s", "i", "n", "i", "r", "l", "i">>,
                      <<"k", "a", "y", "g", "i-", "l", "i-">>,
                      <<"k", "o", "r", "k", "u">>>>),
              WordChars0,
              WordBoundary>>
         >>,
       context |-> <<<<"e", "m", "o", "t", "i", "o", "n", "a", "l">>, <<"s", "u", "p", "p", "o", "r", "t">>>>],
      [intent |-> "SMALL_TALK",
       keywords |-> <<
            <<"m", "e", "r", "h", "a", "b", "a">>,
            <<"s", "e", "l", "a", "m">>,
            <<"n", "a", "s", "i-", "l", "s", "i-", "n">>,
            <<"n", "a", "b", "e", "r">>,
            <<"g", "u:", "n", "a", "y", "d", "i-", "n">>,
            <<"i", "y", "i", " ", "g", "e", "c", "e", "l", "e", "r">>,
            <<"t", "e", "s,", "e", "k", "k", "u:", "r">>,
            <<"s", "a", "g-", "o", "l">> >>,
       patterns |-> <<
            \* ^(merhaba|selam|hi|hello)\b
            <<LineStart,
              OneOf(<<<<"m", "e", "r", "h", "a", "b", "a">>,
                      <<"s", "e", "l", "a", "m">>, <<"h", "i">>,
                      <<"h", "e", "l", "l", "o">>>>),
              WordBoundary>>
         >>,
       context |-> <<<<"g", "r", "e", "e", "t", "i", "n", "g">>, <<"c", "a", "s", "u", "a", "l">>>>],
      [intent |-> "COMPARE",
       keywords |-> <<
            <<"f", "a", "r", "k">>,
            <<"k", "a", "r", "s,", "i-", "l", "a", "s,", "t", "i-", "r">>,
            <<"h", "a", "n", "g", "i", "s", "i">>,
            <<"m", "i", " ", "y", "o", "k", "s", "a">>,
            <<"y", "a", " ", "d", "a">>,
            <<"a", "r", "a", "s", "i-", "n", "d", "a", "k", "i", " ", "f", "a", "r", "k">>,
            <<"d", "a", "h", "a", " ", "i", "y", "i">>,
            <<"t", "e", "r", "c", "i", "h">>, <<"v", "e">>,
            <<"i", "l", "e">>, <<"f", "a", "r", "k", "l", "i-">>,
            <<"b", "e", "n", "z", "e", "r">>,
            <<"a", "y", "n", "i-", " ", "m", "i-">> >>,
       patterns |-> <<
            \* \b(kar{s,}{i-}la{s,}t{i-}r|fark|hangisi)\b
            <<WordBoundary,
              OneOf(<<<<"k", "a", "r", "s,", "i-", "l", "a", "s,", "t", "i-", "r">>,
                      <<"f", "a", "r", "k">>,
                      <<"h", "a", "n", "g", "i", "s", "i">>>>),
              WordBoundary>>,
            \* \b\w+\s+(mi|mu|m{u:}|m{i-})\s+yoksa\s+\w+\b
            <<WordBoundary,
              WordChars1,
              Spaces1,
              OneOf(<<<<"m", "i">>, <<"m", "u">>, <<"m", "u:">>,
                      <<"m", "i-">>>>),
              Spaces1,
              OneOf(<<<<"y", "o", "k", "s", "a">>>>),
              Spaces1,
              WordChars1,
              WordBoundary>>,
            \* \b\w+\s+(ile|ve)\s+\w+\b
            <<WordBoundary,
              WordChars1,
              Spaces1,
              OneOf(<<<<"i", "l", "e">>, <<"v", "e">>>>),
              Spaces1,
              WordChars1,
              WordBoundary>>
         >>,
       context |-> <<<<"c", "o", "m", "p", "a", "r", "i", "s", "o", "n">>>>],
      [intent |-> "RECOMMENDATION",
       keywords |-> <<
            <<"o:", "n", "e", "r">>, <<"t", "a", "v", "s", "i", "y", "e">>,
            <<"n", "e", " ", "y", "a", "p", "m", "a", "l", "i-", "y", "i-", "m">>,
            <<"h", "a", "n", "g", "i">>, <<"e", "n", " ", "i", "y", "i">>,
            <<"o:", "n", "e", "r", "i", "n", " ", "v", "a", "r", " ", "m", "i-">>,
            <<"s", "e", "c,", "m", "e", "k">>,
            <<"h", "a", "n", "g", "i", "s", "i", "n", "i">>,
            <<"o:", "n", "e", "r", "i", "r", "s", "i", "n">>,
            <<"y", "o", "l", " ", "g", "o:", "s", "t", "e", "r">>,
            <<"r", "e", "h", "b", "e", "r", "l", "i", "k">>,
            <<"y", "a", "r", "d", "i-", "m", "c", "i-", " ", "o", "l">> >>,
       patterns |-> <<
            \* \b({o:}ner|tavsiye|ne yapmal{i-}|hangisi)\b
            <<WordBoundary,
              OneOf(<<<<"o:", "n", "e", "r">>,
                      <<"t", "a", "v", "s", "i", "y", "e">>,
                      <<"n", "e", " ", "y", "a", "p", "m", "a", "l", "i-">>,
                      <<"h", "a", "n", "g", "i", "s", "i">>>>),
              WordBoundary>>,
            \* \b(hangi|ne)\s+\w+\s+({o:}{g-}ren|se{c,}|al)\b
            <<WordBoundary,
              OneOf(<<<<"h", "a", "n", "g", "i">>, <<"n", "e">>>>),
              Spaces1,
              WordChars1,
              Spaces1,
              OneOf(<<<<"o:", "g-", "r", "e", "n">>, <<"s", "e", "c,">>,
                      <<"a", "l">>>>),
              WordBoundary>>
         >>,
       context |-> <<<<"r", "e", "c", "o", "m", "m", "e", "n", "d", "a", "t", "i", "o", "n">>>>]
    >>


IntentLabels == { _build_intent_patterns[i].intent : i \in DOMAIN _build_intent_patterns }

\* history[:] in the place of history[-3:]: every turn is read
WholeHistory(history) == history

\* history[-3:]
LastThree(history) ==
    IF Len(history) <= 3 THEN history ELSE SubSeq(history, Len(history) - 2, Len(history))

\* "score += 0.1", n times
RECURSIVE AddTenths(_, _)
AddTenths(score, n) ==
    IF n = 0 THEN score ELSE AddTenths(FloatAdd(score, 100), n - 1)

\* prev_msg.lower() for every prev_msg of turns
RECURSIVE LowerAll(_)
LowerAll(turns) ==
    IF turns = << >> THEN << >> ELSE <<lower(turns[1])>> \o LowerAll(Tail(turns))

\* the number of (turn, context tag) pairs, over the last three turns, where
\* the lower-cased turn contains the tag
ContextHits(patterns, history) ==
    LET lowered == LowerAll(LastThree(history))
    IN  Cardinality({ <<t, c>> \in (DOMAIN lowered) \X (DOMAIN patterns.context) :
                        IsIn(patterns.context[c], lowered[t]) })

\* the score without its upper limit
clamp_missing(score) == score

\* return min(1.0, score)
clamp(score) == Min(1000, score)

\* _score_intent with the bonuses of mode_bonuses added to the score
_score_intent_with_mode_bonus(text, patterns, mode, history) ==
    LET keyword_score ==
            Cardinality({k \in DOMAIN patterns.keywords : IsIn(patterns.keywords[k], text)})
        pattern_score ==
            Cardinality({k \in DOMAIN patterns.patterns : re_search(patterns.patterns[k], text)})
        score1 == IF keyword_score > 0
                  THEN FloatAdd(0, Min(500, KeywordProduct(keyword_score)))
                  ELSE 0
        score2 == IF pattern_score > 0
                  THEN FloatAdd(score1, Min(400, PatternProduct(pattern_score)))
                  ELSE score1
        score3 == IF history.given /\ history.turns # << >>
                  THEN AddTenths(score2, ContextHits(patterns, history.turns))
                  ELSE score2
        bonus == IF <<patterns.intent, mode>> \in
                        {<<"CODE_HELP", "code">>, <<"EMOTIONAL_SUPPORT", "friend">>}
                 THEN 200 ELSE 0
    IN  clamp(score3 + bonus)

\* The (intent, mode) bonuses are built in _score_intent and never read: the
\* score does not depend on mode.  history is [given |-> FALSE] for None.
_score_intent(text, patterns, mode, history) ==
    LET keyword_score ==
            Cardinality({k \in DOMAIN patterns.keywords : IsIn(patterns.keywords[k], text)})
        pattern_score ==
            Cardinality({k \in DOMAIN patterns.patterns : re_search(patterns.patterns[k], text)})
        score1 == IF keyword_score > 0
                  THEN FloatAdd(0, Min(500, KeywordProduct(keyword_score)))
                  ELSE 0
        score2 == IF pattern_score > 0
                  THEN FloatAdd(score1, Min(400, PatternProduct(pattern_score)))
                  ELSE score1
        score3 == IF history.given /\ history.turns # << >>
                  THEN AddTenths(score2, ContextHits(patterns, history.turns))
                  ELSE score2
    IN  clamp(score3)

_explain_intent(intent, text) ==
    CASE intent = "QUESTION" -> "Soru formati tespit edildi"
      [] intent = "CLARIFICATION_REQUEST" -> "Aciklama talebi"
      [] intent = "FOLLOW_UP" -> "Onceki konuya devam"
      [] intent = "EXPLAIN" -> "Detayli aciklama istegi"
      [] intent = "CODE_HELP" -> "Kod/programlama sorusu"
      [] intent = "EMOTIONAL_SUPPORT" -> "Duygusal destek gereksinimi"
      [] intent = "SMALL_TALK" -> "Sohbet/selamlama"
      [] OTHER -> "Unknown reasoning"

\* scores[intent] for every entry of the table, in the table's order
RECURSIVE Scores(_, _, _, _)
Scores(table, text, mode, history) ==
    IF table = << >> THEN << >>
    ELSE <<_score_intent(text, table[1], mode, history)>>
         \o Scores(Tail(table), text, mode, history)

\* max(...) keeping the last of the keys that share the highest score
LastBestIndex(scores) ==
    CHOOSE i \in DOMAIN scores :
        /\ \A j \in DOMAIN scores : scores[j] <= scores[i]
        /\ \A j \in (i + 1)..Len(scores) : scores[j] < scores[i]

\* max(scores, key=scores.get): the first key, in insertion order, whose
\* score no other key exceeds
BestIndex(scores) ==
    CHOOSE i \in DOMAIN scores :
        /\ \A j \in DOMAIN scores : scores[j] <= scores[i]
        /\ \A j \in 1..(i - 1) : scores[j] < scores[i]

ConfidenceThreshold == 300

\* the threshold test with the threshold itself counted as below it
at_or_below_threshold(best_score) == best_score <= ConfidenceThreshold

\* best_score < 0.3
below_threshold(best_score) == best_score < ConfidenceThreshold

\* detect_intent from "best_intent = max(...)" on: scores holds one score
\* per key, in insertion order, and keys[i] is the table entry of scores[i]
intent_result(table, text, keys, scores) ==
    LET best == BestIndex(scores)
        best_score == scores[best]
        best_intent == table[keys[best]].intent
    IN  IF below_threshold(best_score)
        THEN [intent |-> "UNKNOWN", confidence |-> best_score,
              reasoning |-> "No clear intent detected"]
        ELSE [intent |-> best_intent, confidence |-> best_score,
              reasoning |-> _explain_intent(best_intent, text)]

detect_intent(table, a) ==
    LET text == lower(strip(a.message))
        scores == Scores(table, text, a.mode, a.conversation_history)
    IN  intent_result(table, text, [i \in DOMAIN table |-> i], scores)

----------------------------------------------------------------------------
(* The calls that are checked                                              *)

MaxComplexity == 11      \* complexity ranges over 0..MaxComplexity
MaxPad == 1              \* whitespace put around an input: 1..MaxPad characters
MaxHistory == 4          \* conversation_history holds 0..MaxHistory turns
MaxModeHistory == 2      \* in a mode other than the default: 0..MaxModeHistory turns

Complexities == 0..MaxComplexity

\* ChatMode: the modes the bonus table names, the default mode, and a mode
\* the frontend sends that the table does not name
ChatModes == {"normal", "code", "creative", "friend", "uncensored"}

\* s with n blanks before it and n line breaks after it
Pad(s, n) == Cat(Cat(Rep(" ", n), s), Rep("\n", n))
Padded(s) == { Pad(s, n) : n \in 1..MaxPad }

ShortRag == Lit(<<"k", "q">>)

Profiles ==
    {EmptyStr, Rep(" ", 1), Rep("p", ProfileMaxChars), Rep("p", ProfileMaxChars + 1)}
    \union Padded(Cat(Rep("p", 1), ShortRag))
    \union Padded(Rep("p", 350))

Knowledge ==
    {EmptyStr, Rep(" ", 1), ShortRag, Rep("k", 800), Rep("k", 801),
     Cat(Rep("k", 3500), Rep("q", 1))}
    \union Padded(Rep("k", 700))

Histories ==
    {EmptyStr, Rep(" ", 1), Rep("h", 2000), Rep("h", max_history_chars),
     Cat(Rep("g", 1), Rep("h", max_history_chars))}
    \union Padded(Rep("h", 10))

Messages ==
    {EmptyStr, Rep("m", 2200), Rep("h", 2000), HistoryHeading,
     Cat(Cat(Rep("m", 1500), Rep(" ", 1)), Rep("m", 1500)),
     Cat(Rep("m", 1500), Rep("k", 801)),
     Rep("m", 12001)}
    \union Padded(Rep("m", 976))

\* build_smart_context never reads mode: two modes are enough to call it with
CtxModes == {"normal", "code"}

CtxArgs ==
    [user_message : Messages, mode : CtxModes, chat_history : Histories,
     rag_context : Knowledge, complexity : Complexities, profile_context : Profiles]

NoReturn == [status |-> "none", system_prompt |-> EmptyStr, full_context |-> EmptyStr]
NoCtxArgs ==
    [user_message |-> EmptyStr, mode |-> "normal", chat_history |-> EmptyStr,
     rag_context |-> EmptyStr, complexity |-> 5, profile_context |-> EmptyStr]

\* the messages of detect_intent
DetMessages ==
    {
     \* ""
     <<>>,
     \* " \n"
     <<" ", "\n">>,
     \* "k{i-}sa ana fikir"
     <<"k", "i-", "s", "a", " ", "a", "n", "a", " ", "f", "i", "k", "i",
       "r">>,
     \* "ne demek"
     <<"n", "e", " ", "d", "e", "m", "e", "k">>,
     \* "Merhaba, nas{i-}ls{i-}n?"
     <<"M", "e", "r", "h", "a", "b", "a", ",", " ", "n", "a", "s", "i-",
       "l", "s", "i-", "n", "?">>,
     \* "hangi"
     <<"h", "a", "n", "g", "i">>,
     \* "{I.}yi"
     <<"I.", "y", "i">>,
     \* " PEKI \n"
     <<" ", "P", "E", "K", "I", " ", "\n">>,
     \* "Python ile JavaScript"
     <<"P", "y", "t", "h", "o", "n", " ", "i", "l", "e", " ", "J", "a",
       "v", "a", "S", "c", "r", "i", "p", "t">>,
     \* "ne zaman kim kac,?"
     <<"n", "e", " ", "z", "a", "m", "a", "n", " ", "k", "i", "m", " ", "k", "a", "c,", "?">>,
     \* "hata debug"
     <<"h", "a", "t", "a", " ", "d", "e", "b", "u", "g">>,
     \* "python kodum {c,}al{i-}{s,}m{i-}yor, hata veriyor"
     <<"p", "y", "t", "h", "o", "n", " ", "k", "o", "d", "u", "m", " ",
       "c,", "a", "l", "i-", "s,", "m", "i-", "y", "o", "r", ",", " ", "h",
       "a", "t", "a", " ", "v", "e", "r", "i", "y", "o", "r">>
    }

\* the turns of a conversation history: "", "Asking inquiry", "coding"
Turns ==
    {<< >>,
     <<"A", "s", "k", "i", "n", "g", " ", "i", "n", "q", "u", "i", "r", "y">>,
     <<"c", "o", "d", "i", "n", "g">>}

RECURSIVE TurnLists(_)
TurnLists(n) ==
    IF n = 0 THEN {<< >>}
    ELSE TurnLists(n - 1)
         \union {Append(h, t) : h \in {g \in TurnLists(n - 1) : Len(g) = n - 1},
                                t \in Turns}

None == [given |-> FALSE, turns |-> << >>]
ConversationHistories ==
    {None} \union {[given |-> TRUE, turns |-> h] : h \in TurnLists(MaxHistory)}

\* Every message is detected with every history in the default mode, and in
\* every mode with the histories of at most MaxModeHistory turns.
DetArgs ==
    {a \in [message : DetMessages, mode : ChatModes,
            conversation_history : ConversationHistories] :
        a.mode = "normal" \/ Len(a.conversation_history.turns) <= MaxModeHistory}

NoResult == [intent |-> "none", confidence |-> 0, reasoning |-> "none"]
NoDetArgs == [message |-> << >>, mode |-> "normal", conversation_history |-> None]

\* the frontend is not mounted
\* useState(null) of DocumentUpload's file
NoFile == [name |-> << >>, size |-> 0]

\* DocumentUpload and App are not mounted
FrontIdle ==
    /\ upl_file = NoFile
    /\ upl_uploading = FALSE
    /\ upl_error = ""
    /\ upl_documents = << >>
    /\ upl_loadingDocs = FALSE
    /\ upl_server = << >>
    /\ upl_reading = {}
    /\ upl_requests = {}
    /\ upl_started = 0
    /\ app_mounted = FALSE
    /\ app_settings = "none"
    /\ app_showSettings = FALSE
    /\ app_stored = "none"
    /\ panel_localSettings = "none"
    /\ panel_edited = FALSE
    /\ panel_saves = 0

\* the backend is idle
BackIdle ==
    /\ intent_patterns = _build_intent_patterns
    /\ ctx_pc = "idle"
    /\ ctx_args = NoCtxArgs
    /\ ctx_ret = NoReturn
    /\ det_pc = "idle"
    /\ det_args = NoDetArgs
    /\ det_ret = NoResult
    /\ conc_calls = << >>
    /\ conc_scores = << >>

ChatIdle ==
    /\ chat_messages = << >>
    /\ chat_isLoading = FALSE
    /\ chat_error = "null"
    /\ chat_sessionId = "none"
    /\ chat_lastSources = << >>
    /\ chat_storage = << >>
    /\ chat_pending = {}
    /\ chat_calls = << >>
    /\ chat_done = {}

\* build_smart_context: the arguments are drawn, then the call runs
CtxInit ==
    /\ ctx_pc = "call"
    /\ ctx_args \in CtxArgs
    /\ ctx_ret = NoReturn
    /\ intent_patterns = _build_intent_patterns
    /\ det_pc = "idle"
    /\ det_args = NoDetArgs
    /\ det_ret = NoResult
    /\ conc_calls = << >>
    /\ conc_scores = << >>
    /\ ChatIdle
    /\ FrontIdle

\* one call of build_smart_context, from entry to return (or raise)
BuildSmartContext ==
    /\ ctx_pc = "call"
    /\ ctx_ret' = build_smart_context(ctx_args)
    /\ ctx_pc' = "done"
    /\ UNCHANGED <<ctx_args, intent_patterns, det_vars, conc_vars, chat_vars, upl_vars, app_vars>>

CtxNext == BuildSmartContext

CtxSpec == CtxInit /\ [][CtxNext]_vars

\* detect_intent_semantic on the detector built at import
DetInit ==
    /\ intent_patterns = _build_intent_patterns
    /\ det_pc = "call"
    /\ det_args \in DetArgs
    /\ det_ret = NoResult
    /\ ctx_pc = "idle"
    /\ ctx_args = NoCtxArgs
    /\ ctx_ret = NoReturn
    /\ conc_calls = << >>
    /\ conc_scores = << >>
    /\ ChatIdle
    /\ FrontIdle

\* one call of detect_intent, from entry to return
DetectIntent ==
    /\ det_pc = "call"
    /\ det_ret' = detect_intent(intent_patterns, det_args)
    /\ det_pc' = "done"
    /\ UNCHANGED <<intent_patterns, det_args, ctx_vars, conc_vars, chat_vars, upl_vars, app_vars>>

DetNext == DetectIntent

DetSpec == DetInit /\ [][DetNext]_vars

----------------------------------------------------------------------------
(* Concurrent calls.  detect_intent_semantic calls detect_intent on the one *)
(* detector of the module, so concurrent callers share its                  *)
(* intent_patterns; text and scores are locals of each call.  A call is     *)
(* interleaved with the others between any two passes of its loop over the  *)
(* table.                                                                   *)

MaxCalls == 2            \* concurrent calls of detect_intent

Calls == 1..MaxCalls

\* the frame that holds the scores dict of a call: its own
SharedScoresFrame(call) == 1
ScoresFrame(call) == call

\* scores = {}; scores[intent] = score
EmptyDict == [keys |-> << >>, values |-> << >>]
DictPut(d, key, value) ==
    IF \E i \in DOMAIN d.keys : d.keys[i] = key
    THEN [d EXCEPT !.values[CHOOSE i \in DOMAIN d.keys : d.keys[i] = key] = value]
    ELSE [keys |-> Append(d.keys, key), values |-> Append(d.values, value)]

\* the concurrent callers send "ne demek" or "hata debug", after one turn
ConcArgs ==
    [message : {<<"n", "e", " ", "d", "e", "m", "e", "k">>,
                <<"h", "a", "t", "a", " ", "d", "e", "b", "u", "g">>},
     mode : {"code"},
     conversation_history :
        {[given |-> TRUE, turns |-> << <<"c", "o", "d", "i", "n", "g">> >>]}]

\* and one caller builds a context that is over its cap
ConcCtxArgs ==
    {[user_message |-> Rep("m", 2200), mode |-> "code", chat_history |-> Rep("h", 2000),
      rag_context |-> Rep("k", 800), complexity |-> 3, profile_context |-> EmptyStr]}

ConcInit ==
    /\ intent_patterns = _build_intent_patterns
    /\ conc_calls \in [Calls -> {[pc |-> "called", args |-> a, text |-> << >>,
                                  at |-> 0, ret |-> NoResult] : a \in ConcArgs}]
    /\ conc_scores = [f \in Calls |-> EmptyDict]
    /\ ctx_pc = "call"
    /\ ctx_args \in ConcCtxArgs
    /\ ctx_ret = NoReturn
    /\ det_pc = "idle"
    /\ det_args = NoDetArgs
    /\ det_ret = NoResult
    /\ ChatIdle
    /\ FrontIdle

\* text = message.strip().lower(); scores = {}
ConcEnter(c) ==
    /\ conc_calls[c].pc = "called"
    /\ conc_calls' = [conc_calls EXCEPT
            ![c].pc = "scoring",
            ![c].text = lower(strip(conc_calls[c].args.message)),
            ![c].at = 1]
    /\ conc_scores' = [conc_scores EXCEPT ![ScoresFrame(c)] = EmptyDict]
    /\ UNCHANGED <<intent_patterns, ctx_vars, det_vars, chat_vars, upl_vars, app_vars>>

\* one pass of "for intent, patterns in self.intent_patterns.items()"
ConcScore(c) ==
    /\ conc_calls[c].pc = "scoring"
    /\ conc_calls[c].at <= Len(intent_patterns)
    /\ LET call == conc_calls[c]
           score == _score_intent(call.text, intent_patterns[call.at],
                                  call.args.mode, call.args.conversation_history)
       IN  conc_scores' = [conc_scores EXCEPT
               ![ScoresFrame(c)] = DictPut(@, call.at, score)]
    /\ conc_calls' = [conc_calls EXCEPT ![c].at = @ + 1]
    /\ UNCHANGED <<intent_patterns, ctx_vars, det_vars, chat_vars, upl_vars, app_vars>>

\* the loop has ended: max(scores, key=scores.get) and the return; max of an
\* empty dict raises ValueError
ConcReturn(c) ==
    /\ conc_calls[c].pc = "scoring"
    /\ conc_calls[c].at > Len(intent_patterns)
    /\ LET d == conc_scores[ScoresFrame(c)]
       IN  conc_calls' = [conc_calls EXCEPT
               ![c].pc = "done",
               ![c].ret = IF d.keys = << >>
                          THEN [intent |-> "ValueError", confidence |-> 0,
                                reasoning |-> "none"]
                          ELSE intent_result(intent_patterns, conc_calls[c].text,
                                             d.keys, d.values)]
    /\ UNCHANGED <<intent_patterns, conc_scores, ctx_vars, det_vars, chat_vars, upl_vars, app_vars>>

ConcNext ==
    \/ BuildSmartContext
    \/ \E c \in Calls : ConcEnter(c) \/ ConcScore(c) \/ ConcReturn(c)

ConcSpec == ConcInit /\ [][ConcNext]_vars

----------------------------------------------------------------------------
(* useChat, the hook with persisted sessions (hooks/useChat.js, the second *)
(* definition of the file).  A handler runs to its end or to its await,    *)
(* then React renders, so the next handler closes over the state the last  *)
(* one left; the part of sendMessage after the await runs with the         *)
(* messages and sessionId its call closed over.                            *)

MaxSends == 3            \* calls of sendMessage

\* the sessions of the session list
Sessions == {"session_1", "session_2"}

\* the texts sent: "", " \n" and "hi"
SendTexts == {<< >>, <<" ", "\n">>, <<"h", "i">>}

\* text.trim(): of the characters that occur, trim and Python's strip take
\* the same white space off both ends
trim(text) == strip(text)

\* !text.trim()
IsBlank(text) == trim(text) = << >>

\* JSON.stringify and JSON.parse of a message list; a key that was never
\* set reads as null
NoItem == [present |-> FALSE, json |-> << >>]
JSON_stringify(msgs) == [present |-> TRUE, json |-> msgs]
JSON_parse(item) == item.json

\* what loadSessionMessages(sid) sets messages to
loadSessionMessages(storage, sid) ==
    IF storage[sid].present THEN JSON_parse(storage[sid]) ELSE << >>

\* saveSessionMessages(sid, msgs)
saveSessionMessages(storage, sid, msgs) ==
    [storage EXCEPT ![sid] = JSON_stringify(msgs)]

\* the messages sendMessage builds; the number of the call stands for the
\* id and the timestamp
userMessage(call, text) ==
    [role |-> "user", content |-> text, call |-> call, isError |-> FALSE]
assistantMessage(call) ==
    [role |-> "assistant", content |-> <<"response">>, call |-> call, isError |-> FALSE]
errorMessage(call) ==
    [role |-> "assistant", content |-> <<"Hata">>, call |-> call, isError |-> TRUE]

\* how axios.post can end: a response with sources, one without, a rejection
Outcomes == {"response", "response_without_sources", "error"}

\* isLoading left set when the request is rejected
isLoading_reset_on_response_only(outcome) == outcome = "error"

\* finally { setIsLoading(false) }
isLoading_after_request(outcome) == FALSE

\* the hook is mounted with a new session and nothing stored
ChatInit ==
    /\ chat_messages = << >>
    /\ chat_isLoading = FALSE
    /\ chat_error = "null"
    /\ chat_sessionId = "session_1"
    /\ chat_lastSources = << >>
    /\ chat_storage = [sid \in Sessions |-> NoItem]
    /\ chat_pending = {}
    /\ chat_calls = << >>
    /\ chat_done = {}
    /\ BackIdle
    /\ FrontIdle

\* sendMessage(text, settings), up to the await of axios.post
SendMessage(text) ==
    /\ chat_sessionId # "none"
    /\ Len(chat_calls) < MaxSends
    /\ chat_calls' = Append(chat_calls, text)
    /\ IF IsBlank(text)
       THEN UNCHANGED <<chat_state, chat_pending>>
       ELSE LET call == Len(chat_calls) + 1
                updatedMessages == Append(chat_messages, userMessage(call, text))
            IN  /\ chat_messages' = updatedMessages
                /\ chat_storage' =
                      saveSessionMessages(chat_storage, chat_sessionId, updatedMessages)
                /\ chat_isLoading' = TRUE
                /\ chat_error' = "null"
                /\ chat_pending' = chat_pending \union
                      {[call |-> call, updatedMessages |-> updatedMessages,
                        sessionId |-> chat_sessionId]}
                /\ UNCHANGED <<chat_sessionId, chat_lastSources>>
    /\ UNCHANGED <<chat_done, back_vars, upl_vars, app_vars>>

\* sendMessage from the await on: the request of a pending call ends
SettleRequest(request, outcome) ==
    /\ request \in chat_pending
    /\ LET reply == IF outcome = "error" THEN errorMessage(request.call)
                    ELSE assistantMessage(request.call)
           finalMessages == Append(request.updatedMessages, reply)
       IN  /\ chat_messages' = finalMessages
           /\ chat_storage' =
                 saveSessionMessages(chat_storage, request.sessionId, finalMessages)
    /\ chat_lastSources' =
          IF outcome = "response" THEN <<request.call>> ELSE chat_lastSources
    /\ chat_error' = IF outcome = "error" THEN "Bir hata olustu" ELSE chat_error
    /\ chat_isLoading' = isLoading_after_request(outcome)
    /\ chat_pending' = chat_pending \ {request}
    /\ chat_done' = chat_done \union {[call |-> request.call, outcome |-> outcome]}
    /\ UNCHANGED <<chat_sessionId, chat_calls, back_vars,
                   upl_vars, app_vars>>

ClearMessages ==
    /\ chat_sessionId # "none"
    /\ chat_messages' = << >>
    /\ chat_lastSources' = << >>
    /\ chat_storage' = saveSessionMessages(chat_storage, chat_sessionId, << >>)
    /\ UNCHANGED <<chat_isLoading, chat_error, chat_sessionId, chat_pending,
                   chat_calls, chat_done, back_vars,
                   upl_vars, app_vars>>

\* changeSession(newSessionId), and the effect on [sessionId] that follows
\* the render when the session id has changed
ChangeSession(newSessionId) ==
    /\ chat_sessionId # "none"
    /\ chat_sessionId' = newSessionId
    /\ chat_lastSources' = << >>
    /\ chat_messages' = IF newSessionId # chat_sessionId
                        THEN loadSessionMessages(chat_storage, newSessionId)
                        ELSE chat_messages
    /\ UNCHANGED <<chat_isLoading, chat_error, chat_storage, chat_pending,
                   chat_calls, chat_done, back_vars,
                   upl_vars, app_vars>>

Send == \E text \in SendTexts : SendMessage(text)
Settle == \E request \in chat_pending : \E outcome \in Outcomes :
              SettleRequest(request, outcome)

\* messages are sent and answered
ChatSendNext == Send \/ Settle

ChatSendSpec == ChatInit /\ [][ChatSendNext]_vars

\* and the list is cleared and sessions are switched
ChatNext ==
    \/ Send
    \/ Settle
    \/ ClearMessages
    \/ \E sid \in Sessions : ChangeSession(sid)

ChatSpec == ChatInit /\ [][ChatNext]_vars

\* the request of one call ends
SettleCall(call) ==
    \E request \in chat_pending : \E outcome \in Outcomes :
        request.call = call /\ SettleRequest(request, outcome)

\* every request ends: the promise of each axios.post is resolved or rejected
RequestsEnd == \A call \in 1..MaxSends : WF_vars(SettleCall(call))

\* messages are sent and every request ends
ChatLiveSpec == ChatSendSpec /\ RequestsEnd

\* the same with the list cleared and sessions switched in between
ChatSessionsLiveSpec == ChatSpec /\ RequestsEnd

----------------------------------------------------------------------------
(* DocumentUpload (components/DocumentUpload.jsx): choosing a file and     *)
(* handleUpload.  handleUpload has no await of its own: it starts the      *)
(* FileReader and returns; the request is sent from reader.onload.         *)

MaxUploads == 3          \* uploads started by handleUpload

\* 10 * 1024 * 1024
MaxFileBytes == 10485760

\* the files offered: notes.txt, paper.PDF, slides.doc and a text file of
\* one byte more than the limit
Files ==
    { [name |-> <<"n", "o", "t", "e", "s", ".", "t", "x", "t">>, size |-> 2048],
      [name |-> <<"p", "a", "p", "e", "r", ".", "P", "D", "F">>, size |-> 4096],
      [name |-> <<"s", "l", "i", "d", "e", "s", ".", "d", "o", "c">>, size |-> 2048],
      [name |-> <<"b", "i", "g", ".", "t", "x", "t">>, size |-> MaxFileBytes + 1] }

\* name.toLowerCase(): the names are ASCII, where it is Python's lower
toLowerCase(name) == lower(name)

\* name.endsWith(suffix)
endsWith(name, suffix) ==
    /\ Len(name) >= Len(suffix)
    /\ SubSeq(name, Len(name) - Len(suffix) + 1, Len(name)) = suffix

\* selectedFile.name.match(/\.(txt|pdf)$/i)
matches_txt_or_pdf(name) ==
    \/ endsWith(toLowerCase(name), <<".", "t", "x", "t">>)
    \/ endsWith(toLowerCase(name), <<".", "p", "d", "f">>)

\* file.name.toLowerCase().endsWith('.pdf')
isPDF(file) == endsWith(toLowerCase(file.name), <<".", "p", "d", "f">>)

\* the state a handler leaves behind is the value of the last set call it made
LastSet(values) == values[Len(values)]

\* the upload modal is open, nothing chosen, the backend holds no document
UplInit ==
    /\ upl_file = NoFile
    /\ upl_uploading = FALSE
    /\ upl_error = ""
    /\ upl_documents = << >>
    /\ upl_loadingDocs = FALSE
    /\ upl_server = << >>
    /\ upl_reading = {}
    /\ upl_requests = {}
    /\ upl_started = 0
    /\ app_mounted = FALSE
    /\ app_settings = "none"
    /\ app_showSettings = FALSE
    /\ app_stored = "none"
    /\ panel_localSettings = "none"
    /\ panel_edited = FALSE
    /\ panel_saves = 0
    /\ BackIdle
    /\ ChatIdle

\* handleFileChange / handleDrop: validateAndSetFile(selectedFile)
validateAndSetFile(selectedFile) ==
    /\ IF ~ matches_txt_or_pdf(selectedFile.name)
       THEN /\ upl_error' = "Sadece .txt ve .pdf dosyalari desteklenir"
            /\ UNCHANGED upl_file
       ELSE IF selectedFile.size > MaxFileBytes
       THEN /\ upl_error' = "Dosya boyutu maksimum 10MB olabilir"
            /\ UNCHANGED upl_file
       ELSE /\ upl_file' = selectedFile
            /\ upl_error' = ""
    /\ UNCHANGED <<upl_uploading, upl_documents, upl_loadingDocs, upl_server,
                   upl_reading, upl_requests, upl_started, back_vars, chat_vars,
                   app_vars>>

\* the button that removes the chosen file: setFile(null)
RemoveFile ==
    /\ upl_file # NoFile
    /\ upl_file' = NoFile
    /\ UNCHANGED <<upl_uploading, upl_error, upl_documents, upl_loadingDocs,
                   upl_server, upl_reading, upl_requests, upl_started, back_vars,
                   chat_vars, app_vars>>

\* a click on the upload button, which is disabled when !file || uploading:
\* handleUpload sets uploading, starts the read and, in its finally block,
\* resets uploading before it returns
handleUpload ==
    /\ upl_file # NoFile
    /\ ~ upl_uploading
    /\ upl_started < MaxUploads
    /\ upl_uploading' = LastSet(<<TRUE, FALSE>>)
    /\ upl_error' = ""
    /\ upl_started' = upl_started + 1
    /\ upl_reading' = upl_reading \union {[upload |-> upl_started + 1, file |-> upl_file]}
    /\ UNCHANGED <<upl_file, upl_documents, upl_loadingDocs, upl_server,
                   upl_requests, back_vars, chat_vars, app_vars>>

\* reader.onload, up to the await of axios.post: the content is sent,
\* base64 for a PDF and text otherwise
ReaderOnload(read) ==
    /\ read \in upl_reading
    /\ upl_reading' = upl_reading \ {read}
    /\ upl_requests' = upl_requests \union
          {[upload |-> read.upload, file |-> read.file,
            content |-> IF isPDF(read.file) THEN "base64" ELSE "text"]}
    /\ UNCHANGED <<upl_file, upl_uploading, upl_error, upl_documents,
                   upl_loadingDocs, upl_server, upl_started, back_vars, chat_vars,
                   app_vars>>

\* reader.onerror
ReaderOnerror(read) ==
    /\ read \in upl_reading
    /\ upl_reading' = upl_reading \ {read}
    /\ upl_error' = "Dosya okunamadi"
    /\ UNCHANGED <<upl_file, upl_uploading, upl_documents, upl_loadingDocs,
                   upl_server, upl_requests, upl_started, back_vars, chat_vars,
                   app_vars>>

\* how the upload request can end: status success, another status, rejected
UploadOutcomes == {"success", "failed", "rejected"}

\* reader.onload from the await on.  A rejection is not caught there: the
\* try of handleUpload has long been left.
UploadEnds(request, outcome) ==
    /\ request \in upl_requests
    /\ upl_requests' = upl_requests \ {request}
    /\ IF outcome = "success"
       THEN /\ upl_file' = NoFile
            /\ upl_server' = Append(upl_server, request.file.name)
            /\ upl_loadingDocs' = TRUE
            /\ UNCHANGED upl_error
       ELSE /\ upl_error' = IF outcome = "failed" THEN "Upload failed" ELSE upl_error
            /\ UNCHANGED <<upl_file, upl_server, upl_loadingDocs>>
    /\ UNCHANGED <<upl_uploading, upl_documents, upl_reading, upl_started,
                   back_vars, chat_vars, app_vars>>

\* loadDocuments from its await on: the list of the backend arrives
DocumentsLoaded ==
    /\ upl_loadingDocs
    /\ upl_documents' = upl_server
    /\ upl_loadingDocs' = FALSE
    /\ UNCHANGED <<upl_file, upl_uploading, upl_error, upl_server, upl_reading,
                   upl_requests, upl_started, back_vars, chat_vars, app_vars>>

UplNext ==
    \/ \E selectedFile \in Files : validateAndSetFile(selectedFile)
    \/ RemoveFile
    \/ handleUpload
    \/ \E read \in upl_reading : ReaderOnload(read)
    \/ \E read \in upl_reading : ReaderOnerror(read)
    \/ \E request \in upl_requests : \E outcome \in UploadOutcomes :
           UploadEnds(request, outcome)
    \/ DocumentsLoaded

UplSpec == UplInit /\ [][UplNext]_vars

----------------------------------------------------------------------------
(* The settings of App (unnamed/part_000) and SettingsPanel               *)
(* (components/SettingsPanel.jsx).  App renders the panel from its first  *)
(* render on; the panel draws nothing while isOpen is false but keeps its *)
(* state.                                                                  *)

MaxSaves == 2            \* presses of Save

\* useState({...}) of App
DefaultSettings ==
    [mode |-> "normal", safetyLevel |-> 0, temperature |-> "0.7",
     maxTokens |-> 2048, useWebSearch |-> FALSE, maxSources |-> 5]

\* the modes the panel offers that are set here, and the settings they and
\* the web search switch lead to
PanelModes == {"normal", "uncensored"}
SettingsValues ==
    {[DefaultSettings EXCEPT !.mode = mode, !.useWebSearch = useWebSearch] :
        mode \in PanelModes, useWebSearch \in BOOLEAN}

\* what an earlier visit can have left under chat_settings
StoredSettings == {NoItem} \union {JSON_stringify(settings) : settings \in SettingsValues}

\* the first render of App and of the panel inside it: useState(settings)
\* of the panel takes the settings of that render
AppInit ==
    /\ app_mounted = FALSE
    /\ app_settings = DefaultSettings
    /\ app_showSettings = FALSE
    /\ app_stored \in StoredSettings
    /\ panel_localSettings = app_settings
    /\ panel_edited = FALSE
    /\ panel_saves = 0
    /\ upl_file = NoFile
    /\ upl_uploading = FALSE
    /\ upl_error = ""
    /\ upl_documents = << >>
    /\ upl_loadingDocs = FALSE
    /\ upl_server = << >>
    /\ upl_reading = {}
    /\ upl_requests = {}
    /\ upl_started = 0
    /\ BackIdle
    /\ ChatIdle

\* the effect of App that loads the settings, after the first render
LoadSettings ==
    /\ ~ app_mounted
    /\ app_mounted' = TRUE
    /\ app_settings' = IF app_stored.present THEN JSON_parse(app_stored)
                       ELSE app_settings
    /\ UNCHANGED <<app_showSettings, app_stored, panel_localSettings, panel_edited,
                   panel_saves, back_vars, chat_vars, upl_vars>>

\* the settings button: setShowSettings(true)
OpenSettings ==
    /\ app_mounted
    /\ ~ app_showSettings
    /\ app_showSettings' = TRUE
    /\ panel_edited' = FALSE
    /\ UNCHANGED <<app_mounted, app_settings, app_stored, panel_localSettings,
                   panel_saves, back_vars, chat_vars, upl_vars>>

\* the close button of the panel: onClose()
CloseSettings ==
    /\ app_showSettings
    /\ app_showSettings' = FALSE
    /\ UNCHANGED <<app_mounted, app_settings, app_stored, panel_localSettings,
                   panel_edited, panel_saves, back_vars, chat_vars, upl_vars>>

\* a mode button: setLocalSettings({ ...localSettings, mode: opt.value })
SelectMode(mode) ==
    /\ app_showSettings
    /\ panel_localSettings' = [panel_localSettings EXCEPT !.mode = mode]
    /\ panel_edited' = TRUE
    /\ UNCHANGED <<app_mounted, app_settings, app_showSettings, app_stored,
                   panel_saves, back_vars, chat_vars, upl_vars>>

\* the web search switch
ToggleWebSearch ==
    /\ app_showSettings
    /\ panel_localSettings' =
          [panel_localSettings EXCEPT !.useWebSearch = ~ panel_localSettings.useWebSearch]
    /\ panel_edited' = TRUE
    /\ UNCHANGED <<app_mounted, app_settings, app_showSettings, app_stored,
                   panel_saves, back_vars, chat_vars, upl_vars>>

\* App.handleSaveSettings(newSettings)
handleSaveSettings(newSettings) ==
    /\ app_settings' = newSettings
    /\ app_stored' = JSON_stringify(newSettings)

\* the Save button: onSave(localSettings); onClose()
handleSave ==
    /\ app_showSettings
    /\ panel_saves < MaxSaves
    /\ handleSaveSettings(panel_localSettings)
    /\ app_showSettings' = FALSE
    /\ panel_saves' = panel_saves + 1
    /\ UNCHANGED <<app_mounted, panel_localSettings, panel_edited, back_vars,
                   chat_vars, upl_vars>>

AppNext ==
    \/ LoadSettings
    \/ OpenSettings
    \/ CloseSettings
    \/ \E mode \in PanelModes : SelectMode(mode)
    \/ ToggleWebSearch
    \/ handleSave

AppSpec == AppInit /\ [][AppNext]_vars

----------------------------------------------------------------------------
(* Properties of build_smart_context                                       *)

StartsWith(s, t) == Take(s, PyLen(t)) = t
EndsWith(s, t) == PyLen(s) >= PyLen(t) /\ Drop(s, PyLen(s) - PyLen(t)) = t

Newline == Rep("\n", 1)
BlankLine == Rep("\n", 2)

Returned == ctx_pc = "done" /\ ctx_ret.status = "ok"
WithinBudget == PyLen(naive_context(ctx_args)) <= max_total(ctx_args.complexity)

\* the query section: the heading line, then the trimmed message
QuerySection == Cat(Cat(QueryHeading, Newline), PyStrip(ctx_args.user_message))

\* the context of claim C1: the rendered profile, the knowledge section cut to
\* the first half of the rendered knowledge text plus an ellipsis, and the
\* query section, with no history section
HalvedKnowledge ==
    LET r == rag_text(ctx_args.rag_context, ctx_args.complexity)
    IN  Cat(Take(r, PyLen(r) \div 2), Dots)

ReducedContext ==
    PyJoin((IF Present(ctx_args.profile_context)
            THEN <<profile_text(ctx_args.profile_context), EmptyStr>> ELSE << >>)
           \o (IF Present(ctx_args.rag_context)
               THEN <<RagHeading, HalvedKnowledge, EmptyStr>> ELSE << >>)
           \o <<QueryHeading, PyStrip(ctx_args.user_message)>>)

\* C1: for complexity 1..10, if the context without history and with the
\* knowledge halved fits the tier's max_total, the returned full_context is
\* no longer than max_total.
C1_FitsWhenReductionSuffices ==
    (/\ Returned
     /\ ctx_args.complexity \in 1..10
     /\ PyLen(ReducedContext) <= max_total(ctx_args.complexity))
    => PyLen(ctx_ret.full_context) <= max_total(ctx_args.complexity)

\* C2: every call returns a (system_prompt, full_context) pair; none ends in
\* an error.
C2_NeverRaises == ctx_pc = "done" => ctx_ret.status = "ok"

\* C3: the returned full_context ends with the query section (the heading
\* line followed by exactly the trimmed user message), as a section of its
\* own.
C3_QuerySectionLast ==
    Returned =>
        \/ ctx_ret.full_context = QuerySection
        \/ EndsWith(ctx_ret.full_context, Cat(Newline, QuerySection))

\* the body of the history section of the returned context: what stands
\* between the line of the history heading and the blank line before the
\* query section
HistoryBody ==
    LET f == ctx_ret.full_context
        from == PyFind(HistoryHeading, f) + PyLen(HistoryHeading) + 1
        upto == PyLen(f) - PyLen(QuerySection) - 2
    IN  Take(Drop(f, from), upto - from)

\* C9: within budget, the history section body is the trimmed history when
\* that is at most 4000 characters long, and otherwise the ellipsis marker
\* followed by exactly its last 4000 characters.
C9_HistoryKeepsSuffix ==
    (Returned /\ WithinBudget /\ Present(ctx_args.chat_history)) =>
        LET t == PyStrip(ctx_args.chat_history)
            kept == Drop(HistoryBody, PyLen(HistoryEllipsis))
        IN  /\ EndsWith(ctx_ret.full_context,
                        Cat(Cat(Cat(Cat(HistoryHeading, Newline), HistoryBody),
                                BlankLine), QuerySection))
            /\ PyLen(t) <= 4000 => HistoryBody = t
            /\ PyLen(t) > 4000 =>
                  /\ StartsWith(HistoryBody, HistoryEllipsis)
                  /\ PyLen(kept) = 4000
                  /\ EndsWith(t, kept)

C9_Witness ==
    /\ Returned /\ WithinBudget
    /\ PyLen(PyStrip(ctx_args.chat_history)) > 4000
    /\ PyIn(HistoryHeading, ctx_ret.full_context)

\* C10: the rendered profile section is at most 300 characters long: a
\* trimmed profile of at most 300 characters is rendered unchanged, a longer
\* one as its first 297 characters and a 3-character ellipsis; within budget
\* the context starts with it.
C10_ProfileCapped ==
    (ctx_pc = "done" /\ Present(ctx_args.profile_context)) =>
        LET t == PyStrip(ctx_args.profile_context)
            r == context_parts(ctx_args)[1]
        IN  /\ PyLen(r) <= 300
            /\ PyLen(t) <= 300 => r = t
            /\ PyLen(t) > 300 =>
                  /\ PyLen(r) = 300
                  /\ Take(r, 297) = Take(t, 297)
                  /\ Drop(r, 297) = Dots
            /\ (Returned /\ WithinBudget) =>
                  StartsWith(ctx_ret.full_context, Cat(r, BlankLine))

C10_Witness ==
    /\ Returned /\ WithinBudget
    /\ PyLen(PyStrip(ctx_args.profile_context)) = 350
    /\ ctx_args.complexity = MaxComplexity

\* the limits the tiers are stated to have: <<knowledge cap, total cap>>
StatedTier(complexity) ==
    IF complexity <= 3 THEN <<800, 3000>>
    ELSE IF complexity <= 6 THEN <<1500, 5000>>
    ELSE IF complexity <= 8 THEN <<2500, 8000>>
    ELSE <<3500, 12000>>

\* the knowledge body as rendered: the part after the knowledge heading
KnowledgeBody ==
    context_parts(ctx_args)[IF Present(ctx_args.profile_context) THEN 4 ELSE 2]

KnowledgeSection == Cat(Cat(RagHeading, Newline), KnowledgeBody)

\* C11: the rendered knowledge body is never longer than the tier's
\* knowledge cap: trimmed knowledge within the cap is rendered unchanged,
\* longer knowledge as a prefix of the input and an ellipsis, of the cap's
\* length in all; within budget the context holds the section so rendered.
C11_KnowledgeCapped ==
    (ctx_pc = "done" /\ Present(ctx_args.rag_context)) =>
        LET t == PyStrip(ctx_args.rag_context)
            cap == StatedTier(ctx_args.complexity)[1]
            r == KnowledgeBody
        IN  /\ PyLen(r) <= cap
            /\ PyLen(t) <= cap => r = t
            /\ PyLen(t) > cap =>
                  /\ PyLen(r) = cap
                  /\ Take(r, cap - 3) = Take(t, cap - 3)
                  /\ Drop(r, cap - 3) = Dots
            /\ (Returned /\ WithinBudget) =>
                  PyIn(Cat(KnowledgeSection, BlankLine), ctx_ret.full_context)

\* knowledge one character over the highest cap, cut to it within budget
C11_Witness ==
    /\ Returned /\ WithinBudget
    /\ PyLen(PyStrip(ctx_args.rag_context)) > 3500
    /\ PyLen(KnowledgeBody) = 3500
    /\ ctx_args.complexity \in 9..10

\* chat_history, rag_context and profile_context are all ""
NoSources ==
    /\ ctx_args.chat_history = EmptyStr
    /\ ctx_args.rag_context = EmptyStr
    /\ ctx_args.profile_context = EmptyStr

\* C12: with chat_history, rag_context and profile_context all empty, the
\* call returns, and full_context is exactly the query heading, a newline
\* and the trimmed user message, in every mode and at every complexity; no
\* knowledge or history heading stands in it that the message did not bring.
C12_OnlyQuerySection ==
    (ctx_pc = "done" /\ NoSources) =>
        /\ ctx_ret.status = "ok"
        /\ ctx_ret.full_context = QuerySection
        /\ \A heading \in {RagHeading, HistoryHeading} :
              PyIn(heading, ctx_ret.full_context) => PyIn(heading, ctx_args.user_message)

\* a message with whitespace around it and no other source
C12_Witness ==
    /\ Returned /\ NoSources
    /\ ctx_args.user_message # PyStrip(ctx_args.user_message)
    /\ ctx_args.mode = "code"

\* C13: the first element of the returned pair, the legacy system prompt, is
\* the empty string for every input, whether or not the size check changed
\* the context.
C13_SystemPromptEmpty == Returned => ctx_ret.system_prompt = EmptyStr

\* a call whose context the size check shortened
C13_Witness ==
    /\ Returned /\ ~ WithinBudget
    /\ ctx_ret.full_context # naive_context(ctx_args)
    /\ ctx_ret.system_prompt = EmptyStr

\* C14: complexity selects one tier for both limits: <= 3 gives (800, 3000),
\* 4..6 gives (1500, 5000), 7..8 gives (2500, 8000), 9..10 gives
\* (3500, 12000); below 1 the lowest tier is used and above 10 the highest.
\* The limits are the ones the call applies: knowledge longer than every cap
\* is rendered at the tier's knowledge cap, a context within the tier's total
\* cap is returned as joined, and a longer one with a history section is not.
C14_OneTierForBothLimits ==
    ctx_pc = "done" =>
        LET c == ctx_args.complexity
            limits == <<max_rag_chars(c), max_total(c)>>
            naive == naive_context(ctx_args)
        IN  /\ limits = StatedTier(c)
            /\ c < 1 => limits = <<800, 3000>>
            /\ c > 10 => limits = <<3500, 12000>>
            /\ (Present(ctx_args.rag_context)
                /\ PyLen(PyStrip(ctx_args.rag_context)) > 3500)
               => PyLen(KnowledgeBody) = StatedTier(c)[1]
            /\ (Returned /\ PyLen(naive) <= StatedTier(c)[2])
               => ctx_ret.full_context = naive
            /\ (Returned /\ PyLen(naive) > StatedTier(c)[2]
                /\ Present(ctx_args.chat_history))
               => ctx_ret.full_context # naive

\* a complexity above 10 whose context is longer than the total cap of the
\* tier below the highest and is returned as joined
C14_Witness ==
    /\ Returned
    /\ ctx_args.complexity > 10
    /\ Present(ctx_args.chat_history)
    /\ PyLen(naive_context(ctx_args)) > 8000
    /\ ctx_ret.full_context = naive_context(ctx_args)

\* The returned context up to the line of the query heading, that line
\* included (what follows it is the user's own text, no section), between
\* two line breaks, so that every line of it stands between line breaks.
\* Without a query heading it is the whole context.
Skeleton ==
    LET f == Cat(Newline, ctx_ret.full_context)
        at == PyFind(Cat(Newline, QueryHeading), f)
        head == IF at < 0 THEN f ELSE Take(f, at + 1 + PyLen(QueryHeading))
    IN  Cat(head, Newline)

HeadingLine(heading) == Cat(Cat(Newline, heading), Newline)

\* where the line of a heading stands in the skeleton (-1: nowhere), and how
\* many lines of the skeleton are that heading
HeadingAt(heading, skeleton) == PyFind(HeadingLine(heading), skeleton)

RECURSIVE Occurrences(_, _)
Occurrences(line, s) ==
    LET at == PyFind(line, s) IN
    IF at < 0 THEN 0 ELSE 1 + Occurrences(line, Drop(s, at + PyLen(line) - 1))

\* C15: in every returned full_context the sections that are present stand
\* in the order profile, knowledge, history, query: each heading heads at
\* most one line, the knowledge heading stands before the history heading,
\* both before the query heading, which is there, and a profile stands
\* before every heading.  Within
\* budget exactly the sections of the non-blank sources are present and the
\* context starts with the profile.
C15_SectionOrder ==
    Returned =>
        LET skeleton == Skeleton
            k == HeadingAt(RagHeading, skeleton)
            h == HeadingAt(HistoryHeading, skeleton)
            q == HeadingAt(QueryHeading, skeleton)
        IN  /\ \A heading \in {RagHeading, HistoryHeading} :
                  Occurrences(HeadingLine(heading), skeleton) <= 1
            /\ q >= 0
            /\ (k >= 0 /\ h >= 0) => k < h
            /\ k < q /\ h < q
            /\ Present(ctx_args.profile_context) =>
                  \A at \in {k, h, q} : at # 0
            /\ WithinBudget =>
                  /\ k >= 0 <=> Present(ctx_args.rag_context)
                  /\ h >= 0 <=> Present(ctx_args.chat_history)
                  /\ Present(ctx_args.profile_context) =>
                        StartsWith(ctx_ret.full_context,
                                   Cat(profile_text(ctx_args.profile_context),
                                       BlankLine))

\* a context with all four sections
C15_Witness ==
    /\ Returned
    /\ Present(ctx_args.profile_context)
    /\ ctx_args.user_message = HistoryHeading
    /\ LET skeleton == Skeleton
       IN  /\ 0 < HeadingAt(RagHeading, skeleton)
           /\ HeadingAt(RagHeading, skeleton) < HeadingAt(HistoryHeading, skeleton)
           /\ HeadingAt(HistoryHeading, skeleton) < HeadingAt(QueryHeading, skeleton)

\* the rendered profile, knowledge and query sections joined, with no
\* history section
WithoutHistory ==
    PyJoin((IF Present(ctx_args.profile_context)
            THEN <<profile_text(ctx_args.profile_context), EmptyStr>> ELSE << >>)
           \o (IF Present(ctx_args.rag_context)
               THEN <<RagHeading, KnowledgeBody, EmptyStr>> ELSE << >>)
           \o <<QueryHeading, PyStrip(ctx_args.user_message)>>)

HistorySection ==
    Cat(Cat(HistoryHeading, Newline), history_text(ctx_args.chat_history))

\* the profile, knowledge and query sections stand in the returned context
\* exactly as rendered
OtherSectionsAsRendered ==
    LET f == ctx_ret.full_context
    IN  /\ Present(ctx_args.profile_context) =>
              StartsWith(f, Cat(profile_text(ctx_args.profile_context), BlankLine))
        /\ Present(ctx_args.rag_context) =>
              PyIn(Cat(KnowledgeSection, BlankLine), f)
        /\ f = QuerySection \/ EndsWith(f, Cat(Newline, QuerySection))

\* C19: when the joined context exceeds the tier's total cap and a history
\* section is present, the returned context has no history heading and no
\* history section; and if the context without the history section fits the
\* cap, the profile, knowledge and query sections are returned exactly as
\* rendered, the knowledge not halved.
C19_HistoryDroppedFirst ==
    (Returned /\ ~ WithinBudget /\ Present(ctx_args.chat_history)) =>
        /\ Occurrences(HeadingLine(HistoryHeading), Skeleton) = 0
        /\ ~ PyIn(HistorySection, ctx_ret.full_context)
        /\ PyLen(WithoutHistory) <= max_total(ctx_args.complexity)
           => OtherSectionsAsRendered

\* the size check reaches its second step with a knowledge section in the
\* context: the context is over the cap, still over it after the history
\* step, and rag_context is not blank
KnowledgeHalved ==
    /\ Returned /\ ~ WithinBudget
    /\ Present(ctx_args.rag_context)
    /\ PyLen(full_context_no_history(ctx_args)) > max_total(ctx_args.complexity)

\* C20: when the size check halves the knowledge section, the knowledge body
\* of the returned context is the first half of the rendered knowledge text
\* followed by an ellipsis, and the profile section and the query section
\* are as rendered, also when the knowledge text occurs in the user message
\* or in the profile.
C20_HalvingTouchesKnowledgeOnly ==
    KnowledgeHalved =>
        LET f == ctx_ret.full_context
        IN  /\ PyIn(Cat(Cat(Cat(RagHeading, Newline), HalvedKnowledge), Newline), f)
            /\ Present(ctx_args.profile_context) =>
                  StartsWith(f, Cat(profile_text(ctx_args.profile_context), BlankLine))
            /\ f = QuerySection \/ EndsWith(f, Cat(Newline, QuerySection))

\* C21: when the joined context is no longer than the tier's total cap, the
\* cap itself included, the call returns it unchanged: the section of every
\* non-blank source stands in it as rendered and nothing is dropped or
\* halved.
C21_WithinBudgetUnchanged ==
    (ctx_pc = "done"
     /\ PyLen(naive_context(ctx_args)) <= StatedTier(ctx_args.complexity)[2]) =>
        /\ ctx_ret.status = "ok"
        /\ ctx_ret.full_context = naive_context(ctx_args)
        /\ OtherSectionsAsRendered
        /\ Present(ctx_args.chat_history) =>
              PyIn(Cat(Cat(HistorySection, BlankLine), QuerySection),
                   ctx_ret.full_context)

\* a context with a history section that is exactly as long as the cap
C21_Witness ==
    /\ Returned
    /\ Present(ctx_args.chat_history)
    /\ PyLen(naive_context(ctx_args)) = max_total(ctx_args.complexity)
    /\ PyIn(HistorySection, ctx_ret.full_context)

\* C22: in every returned full_context consecutive sections are separated
\* by exactly one blank line, also where the size check dropped the history
\* section: the context does not start with an empty line, no two empty
\* lines follow each other, and every heading that does not start the
\* context has a blank line before it.  (No input of the specification has
\* a blank line inside its trimmed text.)
C22_OneBlankLineBetweenSections ==
    Returned =>
        LET f == ctx_ret.full_context
            skeleton == Skeleton
        IN  /\ ~ StartsWith(f, Newline) \/ f = EmptyStr
            /\ ~ PyIn(Rep("\n", 3), f)
            /\ \A heading \in {RagHeading, HistoryHeading, QueryHeading} :
                  LET at == HeadingAt(heading, skeleton)
                  IN  at > 0 => EndsWith(Take(skeleton, at + 1), BlankLine)

\* C24: a profile, knowledge or history argument that is empty or
\* whitespace-only gives no section and no heading and has no other effect:
\* the call ends as the same call with that argument set to "" ends, within
\* budget and over it.
C24_BlankSourceIsAbsent ==
    ctx_pc = "done" =>
        LET skeleton == Skeleton
        IN  /\ ~ Present(ctx_args.profile_context) =>
                  ctx_ret = build_smart_context(
                                [ctx_args EXCEPT !.profile_context = EmptyStr])
            /\ ~ Present(ctx_args.rag_context) =>
                  /\ ctx_ret = build_smart_context(
                                   [ctx_args EXCEPT !.rag_context = EmptyStr])
                  /\ Returned => HeadingAt(RagHeading, skeleton) < 0
            /\ ~ Present(ctx_args.chat_history) =>
                  /\ ctx_ret = build_smart_context(
                                   [ctx_args EXCEPT !.chat_history = EmptyStr])
                  /\ Returned => HeadingAt(HistoryHeading, skeleton) < 0

----------------------------------------------------------------------------
(* Properties of detect_intent                                             *)

Detected == det_pc = "done"

\* the scores of the call's message, one per entry of the pattern table
CallScores ==
    Scores(intent_patterns, lower(strip(det_args.message)), det_args.mode,
           det_args.conversation_history)

\* the highest of the scores
Highest(scores) ==
    CHOOSE x \in {scores[i] : i \in DOMAIN scores} :
        \A i \in DOMAIN scores : scores[i] <= x

\* C4: an empty or whitespace-only message gives UNKNOWN with confidence 0
\* and the "no clear intent" reasoning, whatever the mode and the history.
C4_BlankMessageUnknown ==
    (Detected /\ strip(det_args.message) = << >>) =>
        det_ret = [intent |-> "UNKNOWN", confidence |-> 0,
                   reasoning |-> "No clear intent detected"]

\* C5: the confidence of every result lies in [0, 1], and a result of
\* confidence 0 has label UNKNOWN.
C5_ConfidenceRange ==
    Detected =>
        /\ det_ret.confidence >= 0
        /\ det_ret.confidence <= 1000
        /\ det_ret.confidence = 0 => det_ret.intent = "UNKNOWN"

\* a call whose summed signals exceed 1 and are cut to 1
C5_Witness ==
    /\ Detected
    /\ det_ret.confidence = 1000
    /\ \E i \in DOMAIN intent_patterns :
          LET p == intent_patterns[i]
              text == lower(strip(det_args.message))
          IN  /\ Cardinality({k \in DOMAIN p.keywords : IsIn(p.keywords[k], text)}) >= 4
              /\ Cardinality({k \in DOMAIN p.patterns : re_search(p.patterns[k], text)}) >= 2
              /\ ContextHits(p, det_args.conversation_history.turns) >= 2

\* C6: the label is UNKNOWN exactly when the best score is below 0.30, the
\* confidence returned is the best score, and a best score of exactly 0.30
\* returns a label of the table.
C6_ThresholdStrict ==
    Detected =>
        LET best == Highest(CallScores)
        IN  /\ det_ret.intent = "UNKNOWN" <=> best < 300
            /\ det_ret.confidence = best
            /\ best = 300 => det_ret.intent \in IntentLabels

\* two keyword hits and nothing else: a best score of exactly 0.30
C6_Witness ==
    /\ Detected
    /\ Highest(CallScores) = 300
    /\ det_ret.intent = "SUMMARIZE"
    /\ ~ det_args.conversation_history.given

\* C7: with a best score of at least 0.30 the label returned has the highest
\* score, and of the labels that share it, it is the one the table declares
\* first.
C7_FirstDeclaredWins ==
    Detected =>
        LET scores == CallScores
            best == Highest(scores)
        IN  best >= 300 =>
                \E i \in DOMAIN intent_patterns :
                    /\ intent_patterns[i].intent = det_ret.intent
                    /\ scores[i] = best
                    /\ \A j \in 1..(i - 1) : scores[j] < best

\* two labels share the highest score, which is at least 0.30
C7_Witness ==
    /\ Detected
    /\ LET scores == CallScores
           best == Highest(scores)
       IN  /\ best >= 300
           /\ Cardinality({i \in DOMAIN scores : scores[i] = best}) >= 2

\* the label's score without any history: the keyword and the pattern signal
BaseScore(i) ==
    _score_intent(lower(strip(det_args.message)), intent_patterns[i],
                  det_args.mode, None)

\* the turns, among the last 3 of the history, that contain at least one of
\* the label's context tags
LastTurns(turns) ==
    SubSeq(turns, IF Len(turns) > 3 THEN Len(turns) - 2 ELSE 1, Len(turns))

TaggedTurns(i) ==
    LET last == LastTurns(det_args.conversation_history.turns)
    IN  Cardinality({t \in DOMAIN last :
            \E c \in DOMAIN intent_patterns[i].context :
                IsIn(intent_patterns[i].context[c], lower(last[t]))})

\* C16: the continuity signal of a label is 0.10 for each of the last 3
\* history turns that contains at least one of the label's context tags:
\* every label's score is its keyword and pattern signals plus that (cut to
\* 1), so a blank message, which has no other signal, never scores above
\* 0.30.
C16_ContinuityPerTurn ==
    Detected =>
        LET scores == CallScores
        IN  /\ \A i \in DOMAIN intent_patterns :
                  scores[i] = Min(1000, AddTenths(BaseScore(i), TaggedTurns(i)))
            /\ strip(det_args.message) = << >> => det_ret.confidence <= 300

\* a turn that contains no context tag of any label
Tagless(turn) ==
    \A i \in DOMAIN intent_patterns :
        \A c \in DOMAIN intent_patterns[i].context :
            ~ IsIn(intent_patterns[i].context[c], lower(turn))

\* the result of the call's message and mode with another history
ResultWith(history) ==
    detect_intent(intent_patterns, [det_args EXCEPT !.conversation_history = history])

\* C17: the result depends on the history only through its last 3 turns:
\* a history of more than 3 turns gives, for the call's message and mode,
\* the result of the history made of its last 3 turns alone (so any two
\* histories with the same last 3 turns give the same result), and a
\* history that is missing, empty or without a tag in any turn gives the
\* result of the missing and of the empty history.
C17_OnlyLastThreeTurns ==
    Detected =>
        LET history == det_args.conversation_history
        IN  /\ Len(history.turns) > 3 =>
                  det_ret = ResultWith([given |-> TRUE,
                                        turns |-> LastTurns(history.turns)])
            /\ (history.given /\ \A t \in DOMAIN history.turns :
                                     Tagless(history.turns[t]))
               => det_ret = ResultWith(None)
            /\ ~ history.given =>
                  det_ret = ResultWith([given |-> TRUE, turns |-> << >>])

\* a history of more than 3 turns whose first turn has a tag that the last
\* three do not have
C17_Witness ==
    /\ Detected
    /\ det_args.conversation_history.given
    /\ LET turns == det_args.conversation_history.turns
       IN  /\ Len(turns) > 3
           /\ ~ Tagless(turns[1])
           /\ \A t \in 2..Len(turns) : Tagless(turns[t])
    /\ det_ret = ResultWith(None)
    /\ det_ret.intent # "UNKNOWN"

\* a score in hundredths: the number of hundredths its float is nearest to
Hundredths(score) == (score + 5) \div 10

\* k and p of a label: how many of its keywords are found in the stripped,
\* lower-cased message and how many of its patterns match it
KeywordsFound(i) ==
    LET text == lower(strip(det_args.message))
    IN  Cardinality({k \in DOMAIN intent_patterns[i].keywords :
                        IsIn(intent_patterns[i].keywords[k], text)})

PatternsMatching(i) ==
    LET text == lower(strip(det_args.message))
    IN  Cardinality({k \in DOMAIN intent_patterns[i].patterns :
                        re_search(intent_patterns[i].patterns[k], text)})

\* C18: with no history, the score of every label is min(0.5, 0.15*k) +
\* min(0.4, 0.2*p) for the k keywords found and the p patterns matching, and
\* so at most 0.9 (scores compared in hundredths: the floats of the code are
\* within a rounding error of the decimal values).
C18_KeywordAndPatternSignals ==
    (Detected /\ (~ det_args.conversation_history.given
                  \/ det_args.conversation_history.turns = << >>)) =>
        LET scores == CallScores
        IN  \A i \in DOMAIN intent_patterns :
                /\ Hundredths(scores[i]) =
                        Min(50, 15 * KeywordsFound(i)) + Min(40, 20 * PatternsMatching(i))
                /\ Hundredths(scores[i]) <= 90

\* a label with more keywords found than the keyword signal counts, and a
\* pattern matching, with no history
C18_Witness ==
    /\ Detected
    /\ ~ det_args.conversation_history.given
    /\ \E i \in DOMAIN intent_patterns :
          /\ KeywordsFound(i) >= 4
          /\ PatternsMatching(i) >= 1
          /\ intent_patterns[i].intent = det_ret.intent
          /\ Hundredths(det_ret.confidence) >= 70

\* the result of the call's message and history in another mode
ResultInMode(mode) ==
    detect_intent(intent_patterns, [det_args EXCEPT !.mode = mode])

\* C23: the result does not depend on the mode: a call in any other mode
\* (code, creative, friend, or a mode the bonus table does not name) returns
\* the label, confidence and reasoning that the same message and history
\* return in the default mode, so any two calls that differ only in mode
\* return the same result.
C23_ModeIgnored ==
    (Detected /\ det_args.mode # "normal") => det_ret = ResultInMode("normal")

\* a coding message in code mode, returned as CODE_HELP with the score of
\* its two keywords alone
C23_Witness ==
    /\ Detected
    /\ det_args.mode = "code"
    /\ ~ det_args.conversation_history.given
    /\ det_ret.intent = "CODE_HELP"
    /\ det_ret.confidence = 300

----------------------------------------------------------------------------
(* Properties of concurrent calls                                          *)

\* C25: no call modifies the pattern table or anything another call reads:
\* however the passes of concurrent detect_intent calls and a
\* build_smart_context call interleave, the table stays as built and every
\* call returns what it returns when it runs alone.
C25_CallsDoNotInterfere ==
    /\ intent_patterns = _build_intent_patterns
    /\ \A c \in DOMAIN conc_calls :
          conc_calls[c].pc = "done" =>
              conc_calls[c].ret = detect_intent(_build_intent_patterns, conc_calls[c].args)
    /\ (conc_calls # << >> /\ ctx_pc = "done") =>
          ctx_ret = build_smart_context(ctx_args)

\* two calls with different messages have returned, with different labels,
\* and so has the context call
C25_Witness ==
    /\ conc_calls # << >>
    /\ \A c \in DOMAIN conc_calls : conc_calls[c].pc = "done"
    /\ conc_calls[1].args.message # conc_calls[2].args.message
    /\ conc_calls[1].ret.intent # conc_calls[2].ret.intent
    /\ ctx_pc = "done"

----------------------------------------------------------------------------
(* Properties of useChat                                                   *)

Sent(call) == call \in DOMAIN chat_calls /\ ~ IsBlank(chat_calls[call])

\* C26: no message is lost: once every sendMessage call that was started
\* has ended, messages holds the user message of every send and, for every
\* send, its assistant reply or its error message.
C26_NoMessageLost ==
    chat_pending = {} =>
        \A call \in DOMAIN chat_calls :
            Sent(call) =>
                /\ \E i \in DOMAIN chat_messages :
                      chat_messages[i] = userMessage(call, chat_calls[call])
                /\ \E i \in DOMAIN chat_messages :
                      chat_messages[i] \in {assistantMessage(call), errorMessage(call)}

\* C27: whenever no request is in flight, messages is the list stored in
\* localStorage under chat_messages_<sessionId> for the current sessionId,
\* or empty when nothing is stored.
C27_MessagesMatchStorage ==
    (chat_sessionId # "none" /\ chat_pending = {}) =>
        chat_messages = loadSessionMessages(chat_storage, chat_sessionId)

InFlight(call) == \E request \in chat_pending : request.call = call
Ended(call) == \E done \in chat_done : done.call = call

\* what a step that ends a request, or a call with blank text, leaves behind
SendMessageStep ==
    /\ chat_done' # chat_done =>
          LET done == CHOOSE d \in chat_done' \ chat_done : TRUE
              request == CHOOSE r \in chat_pending \ chat_pending' : TRUE
              sent == request.updatedMessages
          IN  /\ chat_isLoading' = FALSE
              /\ done.outcome = "error" =>
                    /\ chat_error' # "null"
                    /\ Len(chat_messages') = Len(sent) + 1
                    /\ SubSeq(chat_messages', 1, Len(sent)) = sent
                    /\ sent[Len(sent)] = userMessage(done.call, chat_calls[done.call])
                    /\ chat_messages'[Len(sent) + 1].role = "assistant"
                    /\ chat_messages'[Len(sent) + 1].isError
    /\ (chat_calls' # chat_calls /\ IsBlank(chat_calls'[Len(chat_calls')])) =>
          UNCHANGED <<chat_state, chat_pending, chat_done>>

\* C28: every sendMessage call with non-blank text in the end sets isLoading
\* back to false, whether its request succeeds or fails; on failure the user
\* message is kept, exactly one assistant message marked isError is appended
\* and error is set; a call with blank text changes no state and sends no
\* request.
C28_SendMessageEnds ==
    /\ [][SendMessageStep]_vars
    /\ \A call \in 1..MaxSends : InFlight(call) ~> (Ended(call) /\ ~ InFlight(call))

C28_Witness ==
    /\ \E done \in chat_done : done.outcome = "error"
    /\ \E done \in chat_done : done.outcome = "response"
    /\ \E call \in DOMAIN chat_calls : IsBlank(chat_calls[call])
    /\ ~ chat_isLoading
    /\ chat_error # "null"
    /\ chat_pending = {}

----------------------------------------------------------------------------
(* Properties of DocumentUpload and of the settings                        *)

UploadsInFlight == upl_reading \union {[upload |-> r.upload, file |-> r.file] : r \in upl_requests}

\* C29: the uploading flag is true from the start of handleUpload until the
\* upload request has finished, so no second upload of the same file is in
\* flight beside the first.
C29_UploadingWhileInFlight ==
    /\ UploadsInFlight # {} => upl_uploading
    /\ \A a, b \in UploadsInFlight : a.file = b.file => a = b

\* C30: pressing Save in a panel that was opened and not edited leaves the
\* settings of App as they were, and the stored chat_settings too (where
\* nothing was stored, what is stored now is the settings as they were).
C30_SaveWithoutEditStep ==
    (panel_saves' # panel_saves /\ ~ panel_edited) =>
        /\ app_settings' = app_settings
        /\ app_stored' = IF app_stored.present THEN app_stored
                         ELSE JSON_stringify(app_settings)

C30_SaveWithoutEditChangesNothing == [][C30_SaveWithoutEditStep]_vars

=============================================================================
